---------------------------- MODULE Spec2Model ----------------------------
(***************************************************************************)
(* lab-orchestrator: the recipe rendering and project generation pipeline. *)
(* Strings are modelled as sequences of one-character strings so that the  *)
(* template scanner, path normalisation and prefix tests work on the same  *)
(* text the code works on.                                                 *)
(***************************************************************************)
EXTENDS Integers, Sequences, FiniteSets, TLC

VARIABLES
  tpl, ctx, out, rstate,                    \* one call of renderTemplate
  rvs, overrides, bctx, bmissing, bredacted, bdone,  \* the variable binder's calls
  recipes,    \* the recipe store: id -> recipe
  fs,         \* the file system: [files: path -> content, dirs: set of paths]
  recent,     \* the browser's localStorage list "lab-orchestrator.recent"
  cl,         \* per client: the generate request in flight and its progress
  clock,      \* number of requests submitted so far
  secrets,    \* history: <<key, value>> of every secret value bound in a render
  generations, \* history: the record of every successful generation, oldest first
  grecipe, goverrides, gres, gstate,        \* one call of generateProject
  doc, form, vreply, vstate,                \* one call of POST /api/recipes/validate
  st,         \* per caller: the recipe request in flight and its progress
  now,        \* the server's clock, in milliseconds
  replaced,   \* history: <<id, content>> of every recipe file an update replaced
  panel       \* the browser's GeneratePanel: its recipe prop and its state

rvars == <<tpl, ctx, out, rstate>>
bvars == <<rvs, overrides, bctx, bmissing, bredacted, bdone>>
svars == <<recipes, fs, recent, cl, clock, secrets, generations>>
gvars == <<grecipe, goverrides, gres, gstate>>
vvars == <<doc, form, vreply, vstate>>
tvars == <<st, now, replaced>>
pvars == <<panel>>
vars == <<rvars, bvars, svars, gvars, vvars, tvars, pvars>>

\* The state of a group of variables while another specification runs.
RenderIdle == tpl = <<>> /\ ctx = <<>> /\ out = <<>> /\ rstate = "idle"
BinderIdle ==
  /\ rvs = <<>> /\ overrides = <<>> /\ bctx = <<>>
  /\ bmissing = <<>> /\ bredacted = <<>> /\ bdone = {}
SystemIdle ==
  /\ recipes = <<>> /\ fs = <<>> /\ recent = <<>> /\ cl = <<>>
  /\ clock = 0 /\ secrets = {} /\ generations = <<>>
GenerateIdle ==
  grecipe = <<>> /\ goverrides = <<>> /\ gres = <<>> /\ gstate = "idle"
ValidateIdle == doc = <<>> /\ form = "" /\ vreply = <<>> /\ vstate = "idle"
StoreIdle == st = <<>> /\ now = 0 /\ replaced = {}
PanelIdle == panel = <<>>

(***************************************************************************)
(* Template renderer (backend/src/generator.ts)                            *)
(***************************************************************************)

\* [A-Za-z0-9_], the character class of a placeholder name.
NameChars ==
  {"A", "B", "C", "D", "E", "F", "G", "H", "I", "J", "K", "L", "M", "N", "O",
     "P", "Q", "R", "S", "T", "U", "V", "W", "X", "Y", "Z", "a", "b", "c",
     "d", "e", "f", "g", "h", "i", "j", "k", "l", "m", "n", "o", "p", "q",
     "r", "s", "t", "u", "v", "w", "x", "y", "z", "0", "1", "2", "3", "4",
     "5", "6", "7", "8", "9", "_"}

\* \s of the pattern: the whitespace that occurs in templates.
Whitespace == {" ", "\n"}

RECURSIVE SkipClass(_, _, _)
\* First index >= i of t whose character is not in class (Len(t)+1 at the end):
\* the greedy match of class* starting at i.
SkipClass(t, i, class) ==
  IF i <= Len(t) /\ t[i] \in class THEN SkipClass(t, i + 1, class) ELSE i

IsAt(t, i, c) == i >= 1 /\ i <= Len(t) /\ t[i] = c

\* The match of templatePattern that starts exactly at index i of t:
\* [ok, key, next], next being the index after the closing braces.
MatchAt(t, i) ==
  LET n0 == SkipClass(t, i + 2, Whitespace)
      n1 == SkipClass(t, n0, NameChars)
      n2 == SkipClass(t, n1, Whitespace)
      ok == /\ IsAt(t, i, "{") /\ IsAt(t, i + 1, "{")
            /\ n1 > n0
            /\ IsAt(t, n2, "}") /\ IsAt(t, n2 + 1, "}")
  IN  [ok |-> ok,
       key |-> IF ok THEN SubSeq(t, n0, n1 - 1) ELSE <<>>,
       next |-> IF ok THEN n2 + 2 ELSE i + 1]

\* Properties every plain object inherits from Object.prototype and whose
\* names match the placeholder name class.
ObjectPrototypeKeys ==
  { <<"c", "o", "n", "s", "t", "r", "u", "c", "t", "o", "r">>,
    <<"t", "o", "S", "t", "r", "i", "n", "g">>,
    <<"v", "a", "l", "u", "e", "O", "f">>,
    <<"h", "a", "s", "O", "w", "n", "P", "r", "o", "p", "e", "r", "t", "y">>,
    <<"_", "_", "p", "r", "o", "t", "o", "_", "_">> }

\* String(v) of an inherited property v, as String.prototype.replace
\* converts the callback's return value.
InheritedText(key) ==
  IF key = <<"_", "_", "p", "r", "o", "t", "o", "_", "_">>
  THEN <<"[", "o", "b", "j", "e", "c", "t", " ", "O", "b", "j", "e", "c", "t", "]">>
  ELSE <<"f", "u", "n", "c", "t", "i", "o", "n", " ">>
       \o (IF key = <<"c", "o", "n", "s", "t", "r", "u", "c", "t", "o", "r">>
           THEN <<"O", "b", "j", "e", "c", "t">> ELSE key)
       \o <<"(", ")", " ", "{", " ", "[", "n", "a", "t", "i", "v", "e", " ", "c", "o", "d", "e", "]", " ", "}">>

\* context[key] ?? "": an own property, else an inherited one, else "".
Lookup(c, key) ==
  IF key \in DOMAIN c THEN c[key]
  ELSE IF key \in ObjectPrototypeKeys THEN InheritedText(key)
  ELSE <<>>

RECURSIVE RenderFrom(_, _, _)
\* template.replace(templatePattern, callback) from index i on: matches are
\* found left to right, do not overlap, and the value is inserted as it is.
RenderFrom(t, c, i) ==
  IF i > Len(t) THEN <<>>
  ELSE LET m == MatchAt(t, i)
       IN  IF m.ok THEN Lookup(c, m.key) \o RenderFrom(t, c, m.next)
           ELSE <<t[i]>> \o RenderFrom(t, c, i + 1)

\* Mutant: the pattern without its g flag, only the first match is replaced.
renderTemplate_firstOnly(t, c) ==
  LET hits == {i \in 1..Len(t) : MatchAt(t, i).ok}
  IN  IF hits = {} THEN t
      ELSE LET i == CHOOSE j \in hits : \A h \in hits : j <= h
               m == MatchAt(t, i)
           IN  SubSeq(t, 1, i - 1) \o Lookup(c, m.key) \o SubSeq(t, m.next, Len(t))

\* Mutant: the output is rendered a second time.
renderTemplate_rescan(t, c) == RenderFrom(RenderFrom(t, c, 1), c, 1)

renderTemplate(t, c) == RenderFrom(t, c, 1)

(***************************************************************************)
(* SpecRender: renderTemplate applied to bounded templates and contexts    *)
(***************************************************************************)

MaxTplLen == 5

TplAlphabet == {"{", "}", "A", "B", " "}

\* Templates with more than one placeholder, nested braces, or a name that
\* no caller binds but every object inherits.
LongTemplates ==
  { <<"{", "{", "A", "}", "}", "{", "{", "B", "}", "}">>, <<"{", "{", "{", "{", "A", "}", "}", "}", "}">>, <<"{", "{", " ", "{", "{", "A", "}", "}", " ", "}", "}">>, <<"a", "{", "{", " ", "A", " ", "}", "}", "b">>,
    <<"{", "{", "c", "o", "n", "s", "t", "r", "u", "c", "t", "o", "r", "}", "}">>, <<"{", "{", "t", "o", "S", "t", "r", "i", "n", "g", "}", "}">>, <<"{", "{", "_", "_", "p", "r", "o", "t", "o", "_", "_", "}", "}">>, <<"{", "{", "v", "a", "l", "u", "e", "O", "f", "}", "}">> }

Templates ==
  UNION {[1..n -> TplAlphabet] : n \in 0..MaxTplLen} \cup LongTemplates

KeyA == <<"A">>
KeyB == <<"B">>

ValuesA == {<<>>, <<"x">>, <<"{", "{", "B", "}", "}">>}
ValuesB == {<<"x">>}

\* Contexts over the keys A and B, each bound or not.
Contexts ==
  { [k \in ks |-> IF k = KeyA THEN va ELSE vb] :
      ks \in SUBSET {KeyA, KeyB}, va \in ValuesA, vb \in ValuesB }

RenderInit ==
  /\ tpl \in Templates
  /\ ctx \in Contexts
  /\ out = <<>>
  /\ rstate = "ready"
  /\ BinderIdle /\ SystemIdle /\ GenerateIdle /\ ValidateIdle /\ StoreIdle /\ PanelIdle

Render ==
  /\ rstate = "ready"
  /\ out' = renderTemplate(tpl, ctx)
  /\ rstate' = "done"
  /\ UNCHANGED <<tpl, ctx, bvars, svars, gvars, vvars, tvars, pvars>>

RenderNext == Render

SpecRender == RenderInit /\ [][RenderNext]_vars

(***************************************************************************)
(* Claims about the renderer (checked under SpecRender)                    *)
(***************************************************************************)

Chars(s) == {s[i] : i \in 1..Len(s)}

Token(k) == <<"{", "{">> \o k \o <<"}", "}">>

\* Some placeholder for key occurs in s.
HasPlaceholder(s, key) ==
  \E i \in 1..Len(s) : MatchAt(s, i).ok /\ MatchAt(s, i).key = key

HasAnyPlaceholder(s) == \E i \in 1..Len(s) : MatchAt(s, i).ok

RECURSIVE FailOpenFrom(_, _, _)
\* The rendering the fail-open policy describes: a placeholder whose name is
\* a key of c becomes c's value, every other placeholder becomes "".
FailOpenFrom(t, c, i) ==
  IF i > Len(t) THEN <<>>
  ELSE LET m == MatchAt(t, i)
       IN  IF m.ok
           THEN (IF m.key \in DOMAIN c THEN c[m.key] ELSE <<>>)
                \o FailOpenFrom(t, c, m.next)
           ELSE <<t[i]>> \o FailOpenFrom(t, c, i + 1)

\* The text of t outside its placeholders.
LiteralText(t) == FailOpenFrom(t, <<>>, 1)

\* C8: every placeholder whose name is not a key of the context renders as
\* the empty string (bound ones as their value), whatever the name is.
C8_UnboundRendersEmpty ==
  rstate = "done" => out = FailOpenFrom(tpl, ctx, 1)

\* C9 as stated: the output holds no placeholder for any key of the context.
C9_NoPlaceholderOfBoundKey ==
  rstate = "done" => \A k \in DOMAIN ctx : ~HasPlaceholder(out, k)

\* C9 amended: when no value of the context holds an opening brace and the
\* template holds none outside its placeholders, the output holds no
\* placeholder at all.
C9_NoPlaceholderWhenBraceFree ==
  ( /\ rstate = "done"
    /\ \A k \in DOMAIN ctx : "{" \notin Chars(ctx[k])
    /\ "{" \notin Chars(LiteralText(tpl)) )
  => ~HasAnyPlaceholder(out)

C9_Witness ==
  /\ rstate = "done"
  /\ tpl = Token(KeyA) \o Token(KeyB)
  /\ DOMAIN ctx = {KeyA, KeyB}
  /\ ctx[KeyA] = <<"x">>
  /\ out = <<"x", "x">>

\* C10: a substituted value is inserted literally, never scanned again: a
\* template that is one placeholder of a bound key renders to exactly the
\* key's value, also when that value is itself a placeholder.
C10_SinglePass ==
  rstate = "done" =>
    \A k \in DOMAIN ctx : tpl = Token(k) => out = ctx[k]

C10_Witness ==
  /\ rstate = "done"
  /\ tpl = Token(KeyA)
  /\ DOMAIN ctx = {KeyA, KeyB}
  /\ ctx[KeyA] = Token(KeyB)
  /\ ctx[KeyB] = <<"x">>
  /\ out = Token(KeyB)

(***************************************************************************)
(* Variable binder (backend/src/generator.ts)                              *)
(***************************************************************************)

RedactionMarker == <<"*", "*", "*">>

ProjectNameKey == <<"p", "r", "o", "j", "e", "c", "t", "N", "a", "m", "e">>

VarKeys(vs) == {vs[i].key : i \in 1..Len(vs)}

\* Index of the last variable declared with key k: the entry that
\* Object.fromEntries and the assignment loop of redactVariables keep.
LastDeclared(vs, k) ==
  CHOOSE i \in 1..Len(vs) :
    vs[i].key = k /\ \A j \in 1..Len(vs) : vs[j].key = k => j <= i

\* variables[variable.key] ?? variable.default
Resolve(v, variables) ==
  IF v.key \in DOMAIN variables THEN variables[v.key] ELSE v.default

\* Mutant: || in place of ??, an empty override falls back to the default.
buildContext_or(vs, projectName, variables) ==
  [k \in {ProjectNameKey} \cup VarKeys(vs) |->
     IF k \in VarKeys(vs)
     THEN (IF k \in DOMAIN variables /\ variables[k] # <<>> THEN variables[k]
           ELSE vs[LastDeclared(vs, k)].default)
     ELSE projectName]

\* The context object generateProject builds: projectName, then one entry
\* per declared variable spread over it.
buildContext(vs, projectName, variables) ==
  [k \in {ProjectNameKey} \cup VarKeys(vs) |->
     IF k \in VarKeys(vs) THEN Resolve(vs[LastDeclared(vs, k)], variables)
     ELSE projectName]

RECURSIVE FilterMissing(_, _, _)
FilterMissing(vs, variables, i) ==
  IF i > Len(vs) THEN <<>>
  ELSE (IF vs[i].required /\ Resolve(vs[i], variables) = <<>>
        THEN <<vs[i].key>> ELSE <<>>)
       \o FilterMissing(vs, variables, i + 1)

\* Mutant: the overrides are not consulted, only the defaults.
getMissingRequired_defaultsOnly(vs, variables) == FilterMissing(vs, <<>>, 1)

getMissingRequired(vs, variables) == FilterMissing(vs, variables, 1)

redactVariables(vs, variables) ==
  [k \in VarKeys(vs) |->
     LET v == vs[LastDeclared(vs, k)]
     IN  IF v.secret THEN RedactionMarker ELSE Resolve(v, variables)]

(***************************************************************************)
(* SpecBinder: the binder's three functions applied to bounded recipes     *)
(***************************************************************************)

MaxVars == 2

DefaultValues == {<<>>, <<"d">>}
OverrideValues == {<<>>, <<"s", "3">>}

\* Variable declarations the schema accepts (label, options and description
\* play no part in binding).
VarDecls ==
  [key : {KeyA, KeyB}, default : DefaultValues,
   required : BOOLEAN, secret : BOOLEAN]

VarLists == UNION {[1..n -> VarDecls] : n \in 0..MaxVars}

OverrideMaps ==
  UNION {[ks -> OverrideValues] : ks \in SUBSET {KeyA, KeyB}}

BinderProject == <<"p">>

BinderInit ==
  /\ rvs \in VarLists
  /\ overrides \in OverrideMaps
  /\ bctx = <<>> /\ bmissing = <<>> /\ bredacted = <<>>
  /\ bdone = {}
  /\ RenderIdle /\ SystemIdle /\ GenerateIdle /\ ValidateIdle /\ StoreIdle /\ PanelIdle

BuildContext ==
  /\ "context" \notin bdone
  /\ bctx' = buildContext(rvs, BinderProject, overrides)
  /\ bdone' = bdone \cup {"context"}
  /\ UNCHANGED <<rvs, overrides, bmissing, bredacted, rvars, svars, gvars, vvars, tvars, pvars>>

GetMissing ==
  /\ "missing" \notin bdone
  /\ bmissing' = getMissingRequired(rvs, overrides)
  /\ bdone' = bdone \cup {"missing"}
  /\ UNCHANGED <<rvs, overrides, bctx, bredacted, rvars, svars, gvars, vvars, tvars, pvars>>

Redact ==
  /\ "redact" \notin bdone
  /\ bredacted' = redactVariables(rvs, overrides)
  /\ bdone' = bdone \cup {"redact"}
  /\ UNCHANGED <<rvs, overrides, bctx, bmissing, rvars, svars, gvars, vvars, tvars, pvars>>

BinderNext == BuildContext \/ GetMissing \/ Redact

SpecBinder == BinderInit /\ [][BinderNext]_vars

(***************************************************************************)
(* Claims about the binder (checked under SpecBinder)                      *)
(***************************************************************************)

HasOverride(k) == k \in DOMAIN overrides
HasNonEmptyOverride(k) == k \in DOMAIN overrides /\ overrides[k] # <<>>

\* No later variable is declared with the key of variable i.
IsLastOfKey(i) == \A j \in 1..Len(rvs) : rvs[j].key = rvs[i].key => j <= i

\* The n-th smallest element of a set of indices.
NthOf(idx, n) == CHOOSE i \in idx : Cardinality({j \in idx : j <= i}) = n

\* The keys of the variables whose index is in idx, in declaration order.
KeysAt(idx) == [n \in 1..Cardinality(idx) |-> rvs[NthOf(idx, n)].key]

\* C4 as stated: every declared variable is bound to the override when that
\* is present and non-empty, and to the variable's default otherwise.
C4_NonEmptyOverrideElseDefault ==
  "context" \in bdone =>
    \A i \in 1..Len(rvs) :
      bctx[rvs[i].key] = IF HasNonEmptyOverride(rvs[i].key)
                         THEN overrides[rvs[i].key] ELSE rvs[i].default

\* C4 amended: every declared key is bound to the override when one is
\* present, the empty string included, and otherwise to the default of the
\* last variable declared with that key.
C4_PresentOverrideElseDefault ==
  "context" \in bdone =>
    /\ DOMAIN bctx = {ProjectNameKey} \cup {rvs[i].key : i \in 1..Len(rvs)}
    /\ bctx[ProjectNameKey] = BinderProject
    /\ \A i \in 1..Len(rvs) :
         /\ HasOverride(rvs[i].key) => bctx[rvs[i].key] = overrides[rvs[i].key]
         /\ (~HasOverride(rvs[i].key) /\ IsLastOfKey(i))
              => bctx[rvs[i].key] = rvs[i].default

C4_Witness ==
  /\ "context" \in bdone
  /\ Len(rvs) = 1 /\ rvs[1].key = KeyA /\ rvs[1].default = <<"d">>
  /\ HasOverride(KeyA) /\ overrides[KeyA] = <<>>
  /\ bctx[KeyA] = <<>>

\* C5 as stated: the result lists, in declaration order, the required
\* variables for which neither the override nor the default is non-empty.
C5_NeitherNonEmpty ==
  "missing" \in bdone =>
    bmissing = KeysAt({i \in 1..Len(rvs) :
                         /\ rvs[i].required
                         /\ ~HasNonEmptyOverride(rvs[i].key)
                         /\ rvs[i].default = <<>>})

\* C5 amended: the result lists, in declaration order, the required
\* variables whose resolved value is empty, the resolved value being the
\* override when one is present (an empty one included) and the default
\* otherwise.
C5_ResolvedValueEmpty ==
  "missing" \in bdone =>
    bmissing = KeysAt({i \in 1..Len(rvs) :
                         /\ rvs[i].required
                         /\ \/ HasOverride(rvs[i].key) /\ overrides[rvs[i].key] = <<>>
                            \/ ~HasOverride(rvs[i].key) /\ rvs[i].default = <<>>})

C5_Witness ==
  /\ "missing" \in bdone
  /\ Len(rvs) = 2
  /\ rvs[1].key = KeyB /\ rvs[1].required /\ rvs[1].default = <<>>
  /\ rvs[2].key = KeyA /\ rvs[2].required /\ rvs[2].default = <<"d">>
  /\ DOMAIN overrides = {KeyA} /\ overrides[KeyA] = <<>>
  /\ bmissing = <<KeyB, KeyA>>

\* The whole mapping redactVariables is to return: it covers the declared
\* keys, maps every variable flagged secret to the marker and agrees with
\* the effective context on every other variable.
RedactedMapping ==
  ({"redact", "context"} \subseteq bdone) =>
    /\ DOMAIN bredacted = {rvs[i].key : i \in 1..Len(rvs)}
    /\ \A i \in 1..Len(rvs) :
         bredacted[rvs[i].key] = IF rvs[i].secret THEN RedactionMarker
                                 ELSE bctx[rvs[i].key]

\* C7: redactVariables maps every variable flagged secret to the fixed
\* marker, never to its value, whether the value came from an override or
\* from the default.
C7_SecretsMapToMarker ==
  "redact" \in bdone =>
    \A i \in 1..Len(rvs) :
      rvs[i].secret => bredacted[rvs[i].key] = RedactionMarker

\* The mapping is as C7 says for recipes whose variable keys are pairwise
\* distinct.
RedactedWhenKeysDistinct ==
  (\A i, j \in 1..Len(rvs) : rvs[i].key = rvs[j].key => i = j)
    => RedactedMapping

(***************************************************************************)
(* node:path (POSIX) as used by the generator, and the path sandbox        *)
(***************************************************************************)

Slash == <<"/">>

IsAbsolute(p) == Len(p) > 0 /\ p[1] = "/"

RECURSIVE SplitFrom(_, _, _)
\* The segments of s[i..] between slashes; cur is the segment being read.
SplitFrom(s, i, cur) ==
  IF i > Len(s) THEN <<cur>>
  ELSE IF s[i] = "/" THEN <<cur>> \o SplitFrom(s, i + 1, <<>>)
  ELSE SplitFrom(s, i + 1, Append(cur, s[i]))

SplitPath(s) == SplitFrom(s, 1, <<>>)

RECURSIVE JoinSegments(_)
JoinSegments(segs) ==
  IF Len(segs) = 0 THEN <<>>
  ELSE IF Len(segs) = 1 THEN segs[1]
  ELSE segs[1] \o Slash \o JoinSegments(Tail(segs))

RECURSIVE NormalizeSegments(_, _, _, _)
\* normalizeString: empty and "." segments are dropped, ".." removes the
\* segment before it, and is kept only where the path may rise above its
\* start (a relative path).
NormalizeSegments(segs, i, acc, allowAboveRoot) ==
  IF i > Len(segs) THEN acc
  ELSE LET seg == segs[i]
           acc2 ==
             IF seg = <<>> \/ seg = <<".">> THEN acc
             ELSE IF seg = <<".", ".">>
                  THEN (IF Len(acc) > 0 /\ acc[Len(acc)] # <<".", ".">>
                        THEN SubSeq(acc, 1, Len(acc) - 1)
                        ELSE IF allowAboveRoot THEN Append(acc, seg)
                        ELSE acc)
                  ELSE Append(acc, seg)
       IN  NormalizeSegments(segs, i + 1, acc2, allowAboveRoot)

\* path.normalize
normalize(p) ==
  LET abs == IsAbsolute(p)
      trailing == Len(p) > 0 /\ p[Len(p)] = "/"
      body == JoinSegments(NormalizeSegments(SplitPath(p), 1, <<>>, ~abs))
  IN  IF Len(p) = 0 THEN <<".">>
      ELSE IF Len(body) = 0
           THEN (IF abs THEN Slash ELSE IF trailing THEN <<".", "/">> ELSE <<".">>)
           ELSE (IF abs THEN Slash ELSE <<>>) \o body
                \o (IF trailing THEN Slash ELSE <<>>)

\* path.join(a, b): the non-empty arguments joined by "/" and normalised.
join(a, b) ==
  IF Len(a) = 0 /\ Len(b) = 0 THEN <<".">>
  ELSE IF Len(a) = 0 THEN normalize(b)
  ELSE IF Len(b) = 0 THEN normalize(a)
  ELSE normalize(a \o Slash \o b)

\* path.resolve(base, target) for an absolute base: an absolute target
\* replaces the base, a relative one is appended; no trailing slash is kept.
resolve(base, target) ==
  LET full == IF IsAbsolute(target) THEN target
              ELSE IF Len(target) = 0 THEN base
              ELSE base \o Slash \o target
  IN  Slash \o JoinSegments(NormalizeSegments(SplitPath(full), 1, <<>>, FALSE))

\* path.dirname of an absolute path without trailing slash.
dirname(p) ==
  LET segs == NormalizeSegments(SplitPath(p), 1, <<>>, FALSE)
  IN  IF Len(segs) <= 1 THEN Slash
      ELSE Slash \o JoinSegments(SubSeq(segs, 1, Len(segs) - 1))

\* String.prototype.startsWith
startsWith(s, prefix) ==
  Len(prefix) <= Len(s) /\ SubSeq(s, 1, Len(prefix)) = prefix

\* safeJoin: the resolved path, or the thrown "Invalid file path".
safeJoin(base, target) ==
  LET targetPath == resolve(base, target)
  IN  [ok |-> startsWith(targetPath, base), path |-> targetPath]

(***************************************************************************)
(* The file system and paths.ts                                            *)
(***************************************************************************)

rootDir == <<"/", "l", "a", "b">>
recipesDir == join(rootDir, <<"r", "e", "c", "i", "p", "e", "s">>)
historyDir == join(recipesDir, <<".", "h", "i", "s", "t", "o", "r", "y">>)
generatedDir == join(rootDir, <<"g", "e", "n", "e", "r", "a", "t", "e", "d">>)
generatedIndex == join(generatedDir, <<"i", "n", "d", "e", "x", ".", "j", "s", "o", "n">>)

\* File contents: rendered text, or a JSON array of generation records.
Text(t) == [kind |-> "text", text |-> t, records |-> <<>>]
Json(rs) == [kind |-> "json", text |-> <<>>, records |-> rs]

Put(f, k, v) == [x \in DOMAIN f \cup {k} |-> IF x = k THEN v ELSE f[x]]

RECURSIVE Ancestors(_)
\* The directory p and every directory above it.
Ancestors(p) == IF p = Slash THEN {Slash} ELSE {p} \cup Ancestors(dirname(p))

\* fs.mkdir(p, { recursive: true }): fails where a file is in the way.
mkdir(f, p) ==
  IF \E a \in Ancestors(p) : a \in DOMAIN f.files
  THEN [ok |-> FALSE, fs |-> f]
  ELSE [ok |-> TRUE, fs |-> [f EXCEPT !.dirs = @ \cup Ancestors(p)]]

\* fs.writeFile(p, content): creates or overwrites the file; fails on a
\* directory and where the parent directory does not exist.
writeFile(f, p, content) ==
  IF p \in f.dirs \/ dirname(p) \notin f.dirs
  THEN [ok |-> FALSE, fs |-> f]
  ELSE [ok |-> TRUE, fs |-> [f EXCEPT !.files = Put(@, p, content)]]

\* The directories ensureDirectories creates at startup, and the empty index.
ensureDirectories ==
  [files |-> (generatedIndex :> Json(<<>>)),
   dirs |-> Ancestors(historyDir) \cup Ancestors(generatedDir)]

(***************************************************************************)
(* generateProject (backend/src/generator.ts)                              *)
(***************************************************************************)

\* The value of a one-element set. Binding x \in {e} evaluates e once,
\* where a parameter used several times would be evaluated at every use.
TheOne(S) == CHOOSE y \in S : TRUE

Thrown(g, err) == [g EXCEPT !.ok = FALSE, !.err = err]

\* One awaited step of generateProject on the running result g = [ok, fs,
\* err, writes]: nothing more happens once a step has thrown.
DoMkdir(g, p) ==
  TheOne({ IF ~x.ok THEN x
           ELSE TheOne({ IF r.ok THEN [x EXCEPT !.fs = r.fs]
                         ELSE Thrown(x, "filesystem") :
                         r \in {mkdir(x.fs, p)} }) :
           x \in {g} })

DoWrite(g, p, content, kind) ==
  TheOne({ IF ~x.ok THEN x
           ELSE TheOne({ IF r.ok
                         THEN [x EXCEPT !.fs = r.fs,
                                 !.writes = Append(@, [path |-> p, kind |-> kind])]
                         ELSE Thrown(x, "filesystem") :
                         r \in {writeFile(x.fs, p, content)} }) :
           x \in {g} })

\* Mutant: a file whose path fails the sandbox check is skipped and the loop
\* goes on with the next file.
WriteRecipeFile_skipsRejected(g, projectDir, file, c, kind) ==
  TheOne({ IF ~x.ok THEN x
           ELSE TheOne({ IF ~target.ok THEN x
                         ELSE DoWrite(DoMkdir(x, dirname(target.path)), target.path,
                                      Text(renderTemplate(file.content, c)), kind) :
                         target \in { safeJoin(projectDir,
                                        IF kind = "seed"
                                        THEN join(<<"s", "e", "e", "d">>, renderTemplate(file.path, c))
                                        ELSE renderTemplate(file.path, c)) } }) :
           x \in {g} })

\* The body of the seed and of the extra loop for one file.
WriteRecipeFile(g, projectDir, file, c, kind) ==
  TheOne({ IF ~x.ok THEN x
           ELSE TheOne({ IF ~target.ok THEN Thrown(x, "Invalid file path")
                         ELSE DoWrite(DoMkdir(x, dirname(target.path)), target.path,
                                      Text(renderTemplate(file.content, c)), kind) :
                         target \in { safeJoin(projectDir,
                                        IF kind = "seed"
                                        THEN join(<<"s", "e", "e", "d">>, renderTemplate(file.path, c))
                                        ELSE renderTemplate(file.path, c)) } }) :
           x \in {g} })

RECURSIVE WriteRecipeFiles(_, _, _, _, _, _)
WriteRecipeFiles(g, projectDir, files, i, c, kind) ==
  IF i > Len(files) THEN g
  ELSE WriteRecipeFiles(WriteRecipeFile(g, projectDir, files[i], c, kind),
                        projectDir, files, i + 1, c, kind)

\* The writes of generateProject in the order of the code, given the
\* context, the project directory and the three rendered templates.
WriteProject(f, recipe, context, projectDir, compose, env, readme) ==
  LET g0 == [ok |-> TRUE, fs |-> f, err |-> "", writes |-> <<>>]
      g1 == DoMkdir(g0, projectDir)
      g2 == DoWrite(g1, join(projectDir, <<"d", "o", "c", "k", "e", "r", "-", "c", "o", "m", "p", "o", "s", "e", ".", "y", "m", "l">>), Text(compose), "compose")
      g3 == DoWrite(g2, join(projectDir, <<".", "e", "n", "v">>), Text(env), "env")
      g4 == DoWrite(g3, join(projectDir, <<"R", "E", "A", "D", "M", "E", ".", "m", "d">>), Text(readme), "readme")
      g5 == IF Len(recipe.seedFiles) > 0
            THEN WriteRecipeFiles(DoMkdir(g4, join(projectDir, <<"s", "e", "e", "d">>)),
                                  projectDir, recipe.seedFiles, 1, context, "seed")
            ELSE g4
  IN  IF Len(recipe.extraFiles) > 0
      THEN WriteRecipeFiles(g5, projectDir, recipe.extraFiles, 1, context, "extra")
      ELSE g5

\* generateProject on file system f: [ok, fs, err, writes, projectDir,
\* files]; ok is FALSE when the call threw, and fs is what it left behind.
generateProject(f, recipe, projectName, variables) ==
  TheOne({ TheOne({ [ok |-> g.ok, fs |-> g.fs, err |-> g.err, writes |-> g.writes,
                     projectDir |-> r.projectDir,
                     files |-> [compose |-> r.compose, env |-> r.env,
                                readme |-> r.readme]] :
                    g \in { WriteProject(f, recipe, r.context, r.projectDir,
                                         r.compose, r.env, r.readme) } }) :
           r \in { TheOne({ [context |-> context,
                             projectDir |-> join(generatedDir, projectName),
                             compose |-> renderTemplate(recipe.composeTemplate, context),
                             env |-> renderTemplate(recipe.envTemplate, context),
                             readme |-> renderTemplate(recipe.readmeTemplate, context)] :
                            context \in { buildContext(recipe.variables, projectName,
                                                       variables) } }) } })

(***************************************************************************)
(* The generation index (backend/src/generated.ts)                         *)
(***************************************************************************)

IndexCap == 100

Take(s, n) == SubSeq(s, 1, IF Len(s) < n THEN Len(s) ELSE n)

\* readGeneratedIndex: the stored array, [] when the file is missing or
\* does not hold a JSON array.
readGeneratedIndex(f) ==
  IF generatedIndex \in DOMAIN f.files /\ f.files[generatedIndex].kind = "json"
  THEN f.files[generatedIndex].records
  ELSE <<>>

(***************************************************************************)
(* The recipes stored at startup and the requests clients send             *)
(***************************************************************************)

KeyT == <<"T">>
KeyP == <<"P">>
KeyD == <<"D">>
KeyS == <<"S">>
KeyE == <<"E">>

Var(k, d, req, sec) == [key |-> k, default |-> d, required |-> req, secret |-> sec]

\* A recipe with a required secret without default and a seed file whose
\* path is a placeholder.
RecipeWeb ==
  [id |-> <<"w", "e", "b">>,
   variables |-> << Var(KeyT, <<"l">>, FALSE, FALSE),
                    Var(KeyP, <<>>, TRUE, TRUE),
                    Var(KeyD, <<"a", ".", "s", "q", "l">>, FALSE, FALSE) >>,
   composeTemplate |-> <<"i", ":", "{", "{", "T", "}", "}">>,
   envTemplate |-> <<"P", "=", "{", "{", "P", "}", "}">>,
   readmeTemplate |-> <<"{", "{", "p", "r", "o", "j", "e", "c", "t", "N", "a", "m", "e", "}", "}">>,
   seedFiles |-> << [path |-> <<"{", "{", "D", "}", "}">>, content |-> <<"{", "{", "P", "}", "}">>] >>,
   extraFiles |-> <<>>]

\* A recipe with a secret that has a default and an extra file whose path
\* is a placeholder.
RecipeDb ==
  [id |-> <<"d", "b">>,
   variables |-> << Var(KeyS, <<"d", "f", "l", "t">>, FALSE, TRUE),
                    Var(KeyE, <<"x", "/", "y">>, FALSE, FALSE) >>,
   composeTemplate |-> <<"s", ":", "{", "{", "S", "}", "}">>,
   envTemplate |-> <<"e">>,
   readmeTemplate |-> <<"r">>,
   seedFiles |-> <<>>,
   extraFiles |-> << [path |-> <<"{", "{", "E", "}", "}">>, content |-> <<"c">>] >>]

\* A recipe without variables whose first extra file names index.json beside
\* the project directory and whose second extra file names a path above the
\* generated directory.
RecipeIx ==
  [id |-> <<"i", "x">>,
   variables |-> <<>>,
   composeTemplate |-> <<"c">>,
   envTemplate |-> <<"e">>,
   readmeTemplate |-> <<"r">>,
   seedFiles |-> <<>>,
   extraFiles |-> << [path |-> <<".", ".", "/", "i", "n", "d", "e", "x", ".", "j", "s", "o", "n">>,
                      content |-> <<"x">>],
                     [path |-> <<".", ".", "/", ".", ".", "/", "x">>, content |-> <<"x">>] >>]

InitialRecipes ==
  (RecipeWeb.id :> RecipeWeb) @@ (RecipeDb.id :> RecipeDb) @@ (RecipeIx.id :> RecipeIx)

NoVariables == [k \in {} |-> <<>>]

\* Values a caller of the API may send for the variables of each recipe.
OverridesFor(id) ==
  IF id = RecipeWeb.id
  THEN { NoVariables,
         (KeyP :> <<"s", "3">>),
         (KeyP :> <<"s", "3">>) @@ (KeyD :> <<".", ".", "/", "d", "o", "c", "k", "e", "r", "-", "c", "o", "m", "p", "o", "s", "e", ".", "y", "m", "l">>) }
  ELSE IF id = RecipeDb.id
  THEN { NoVariables,
         (KeyE :> <<".", ".", "/", "p", "-", "o", "/", "x">>),
         (KeyE :> <<".", ".", "/", "q", "/", "x">>),
         (KeyE :> <<"/", "e", "t", "c", "/", "x">>) }
  ELSE {}

\* Values a user may type into the form of each recipe.
TypedFor(id) ==
  IF id = RecipeWeb.id THEN { NoVariables, (KeyP :> <<"s", "3">>) }
  ELSE IF id = RecipeDb.id THEN { NoVariables }
  ELSE {}

UnknownRecipeId == <<"n", "o", "p", "e">>

FirstProject == <<"p">>
\* A project name that is a prefix of the name of the index file.
IndexPrefixProject == <<"i">>
SecondProject == <<"p", "-", "o">>
ValidProjectNames == { FirstProject, SecondProject }
InvalidProjectNames == { <<"P">> }

LowerAlnum ==
  {"a", "b", "c", "d", "e", "f", "g", "h", "i", "j", "k", "l", "m", "n", "o",
   "p", "q", "r", "s", "t", "u", "v", "w", "x", "y", "z",
   "0", "1", "2", "3", "4", "5", "6", "7", "8", "9"}

\* /^[a-z0-9][a-z0-9-]*$/
MatchesProjectName(n) ==
  /\ Len(n) >= 1
  /\ n[1] \in LowerAlnum
  /\ \A i \in 2..Len(n) : n[i] \in LowerAlnum \cup {"-"}

\* Mutant: the schema accepts any project name.
ValidGenerateRequest_anyName(req) == Len(req.recipeId) >= 1

\* GenerateRequestSchema.safeParse(body).success
ValidGenerateRequest(req) ==
  Len(req.recipeId) >= 1 /\ MatchesProjectName(req.projectName)

(***************************************************************************)
(* POST /api/generate (backend/src/index.ts) and the clients               *)
(***************************************************************************)

MaxGenerate == 2

RecentCap == 10

Clients == {"c1", "c2"}

NoRequest == [recipeId |-> <<>>, projectName |-> <<>>, variables |-> NoVariables]

IdleClient ==
  [pc |-> "idle", ui |-> FALSE, req |-> NoRequest, status |-> 0,
   missing |-> <<>>, writes |-> <<>>, projectDir |-> <<>>, existing |-> <<>>,
   createdAt |-> 0, files |-> <<>>]

\* Mutant: the missing-required check never blocks.
missingBlocks_never(recipe, variables) == FALSE

\* if (missing.length) of the handler.
missingBlocks(recipe, variables) ==
  Len(getMissingRequired(recipe.variables, variables)) > 0

\* The <<key, value>> pairs of the non-empty values a render binds to
\* variables flagged secret.
SecretBindings(recipe, variables) ==
  { <<recipe.variables[i].key, Resolve(recipe.variables[i], variables)>> :
      i \in {j \in 1..Len(recipe.variables) :
               /\ recipe.variables[j].secret
               /\ Resolve(recipe.variables[j], variables) # <<>>} }

\* A caller of the HTTP API posts any well-typed body.
ApiPost(c, req) ==
  /\ cl[c].pc = "idle"
  /\ clock < MaxGenerate
  /\ clock' = clock + 1
  /\ cl' = [cl EXCEPT ![c] = [IdleClient EXCEPT !.pc = "posted", !.req = req]]
  /\ UNCHANGED <<recipes, fs, recent, secrets, generations>>

\* GeneratePanel.handleGenerate: vars holds a value for every declared
\* variable; an invalid name or an empty required value stops the click.
UiHandleGenerate(c, recipe, projectName, typed) ==
  LET vs == recipe.variables
      uivars == [k \in VarKeys(vs) |->
                   IF k \in DOMAIN typed THEN typed[k]
                   ELSE vs[LastDeclared(vs, k)].default]
      uimissing == {i \in 1..Len(vs) : vs[i].required /\ uivars[vs[i].key] = <<>>}
  IN  /\ cl[c].pc = "idle"
      /\ clock < MaxGenerate
      /\ MatchesProjectName(projectName)
      /\ uimissing = {}
      /\ clock' = clock + 1
      /\ cl' = [cl EXCEPT ![c] =
                  [IdleClient EXCEPT !.pc = "posted", !.ui = TRUE,
                     !.req = [recipeId |-> recipe.id, projectName |-> projectName,
                              variables |-> uivars]]]
      /\ UNCHANGED <<recipes, fs, recent, secrets, generations>>

Reply(c, status, missing) ==
  cl' = [cl EXCEPT ![c].pc = "replied", ![c].status = status,
                   ![c].missing = missing]

\* The handler up to the return of generateProject.
ServeGenerate(c) ==
  LET req == cl[c].req IN
  /\ cl[c].pc = "posted"
  /\ UNCHANGED <<recipes, recent, clock, generations>>
  /\ IF ~ValidGenerateRequest(req)
     THEN Reply(c, 400, <<>>) /\ UNCHANGED <<fs, secrets>>
     ELSE IF req.recipeId \notin DOMAIN recipes
     THEN Reply(c, 404, <<>>) /\ UNCHANGED <<fs, secrets>>
     ELSE LET recipe == recipes[req.recipeId] IN
          IF missingBlocks(recipe, req.variables)
          THEN /\ Reply(c, 400, getMissingRequired(recipe.variables, req.variables))
               /\ UNCHANGED <<fs, secrets>>
          ELSE \E g \in {generateProject(fs, recipe, req.projectName, req.variables)} :
               /\ fs' = g.fs
               /\ secrets' = secrets \cup SecretBindings(recipe, req.variables)
               /\ cl' = [cl EXCEPT
                           ![c].pc = IF g.ok THEN "append_read" ELSE "replied",
                           ![c].status = IF g.ok THEN 0 ELSE 500,
                           ![c].writes = g.writes,
                           ![c].projectDir = g.projectDir,
                           ![c].files = g.files]

\* The record the handler passes to appendGeneratedRecord.
GeneratedRecord(c) ==
  [projectName |-> cl[c].req.projectName,
   recipeId |-> recipes[cl[c].req.recipeId].id,
   createdAt |-> cl[c].createdAt,
   path |-> cl[c].projectDir,
   variables |-> redactVariables(recipes[cl[c].req.recipeId].variables,
                                 cl[c].req.variables)]

\* The handler builds the record (new Date() at index.ts:102), and
\* appendGeneratedRecord does its first half: existing = await readGeneratedIndex()
AppendRead(c) ==
  /\ cl[c].pc = "append_read"
  /\ cl' = [cl EXCEPT ![c].pc = "append_write",
                      ![c].existing = readGeneratedIndex(fs),
                      ![c].createdAt = clock]
  /\ generations' = Append(generations, [GeneratedRecord(c) EXCEPT !.createdAt = clock])
  /\ UNCHANGED <<recipes, fs, recent, clock, secrets>>

\* appendGeneratedRecord, second half: the index file is written, and the
\* handler replies.
AppendWrite(c) ==
  LET updated == Take(<<GeneratedRecord(c)>> \o cl[c].existing, IndexCap)
      w == writeFile(fs, generatedIndex, Json(updated))
  IN  /\ cl[c].pc = "append_write"
      /\ fs' = w.fs
      /\ cl' = [cl EXCEPT ![c].pc = "replied",
                          ![c].status = IF w.ok THEN 200 ELSE 500]
      /\ UNCHANGED <<recipes, recent, clock, secrets, generations>>

\* generateMutation.onSuccess in the browser: recent.add of the request as
\* it was sent.
UiOnSuccess(c) ==
  /\ cl[c].pc = "replied" /\ cl[c].ui /\ cl[c].status = 200
  /\ recent' = Take(<< [projectName |-> cl[c].req.projectName,
                        recipeId |-> cl[c].req.recipeId,
                        createdAt |-> clock,
                        path |-> cl[c].projectDir,
                        variables |-> cl[c].req.variables] >> \o recent,
                    RecentCap)
  /\ cl' = [cl EXCEPT ![c] = IdleClient]
  /\ UNCHANGED <<recipes, fs, clock, secrets, generations>>

\* Any other reply ends the exchange.
Finish(c) ==
  /\ cl[c].pc = "replied" /\ ~(cl[c].ui /\ cl[c].status = 200)
  /\ cl' = [cl EXCEPT ![c] = IdleClient]
  /\ UNCHANGED <<recipes, fs, recent, clock, secrets, generations>>

Request(id, n, o) == [recipeId |-> id, projectName |-> n, variables |-> o]

\* Bodies a caller of the API posts: every recipe with each of its override
\* maps under the first project name and with the values of the form under
\* the second, bodies with an invalid project name (for a recipe that needs
\* no value, and for no stored recipe), the recipe without variables under
\* the project name i, and one body that names no stored recipe.
ApiRequests ==
  UNION { {Request(id, FirstProject, o) : o \in OverridesFor(id)}
          \cup {Request(id, SecondProject, o) : o \in TypedFor(id)} :
          id \in DOMAIN InitialRecipes }
  \cup { Request(id, n, NoVariables) :
           id \in {RecipeDb.id, UnknownRecipeId}, n \in InvalidProjectNames }
  \cup { Request(RecipeIx.id, IndexPrefixProject, NoVariables) }
  \cup { Request(UnknownRecipeId, FirstProject, NoVariables) }

Init ==
  /\ recipes = InitialRecipes
  /\ fs = ensureDirectories
  /\ recent = <<>>
  /\ cl = [c \in Clients |-> IdleClient]
  /\ clock = 0
  /\ secrets = {}
  /\ generations = <<>>
  /\ RenderIdle /\ BinderIdle /\ GenerateIdle /\ ValidateIdle /\ StoreIdle /\ PanelIdle

Next ==
  \/ \E c \in Clients :
       \E req \in ApiRequests : ApiPost(c, req) /\ UNCHANGED <<rvars, bvars, gvars, vvars, tvars, pvars>>
  \/ \E c \in Clients, id \in DOMAIN recipes, n \in {FirstProject} :
       \E typed \in TypedFor(id) :
         UiHandleGenerate(c, recipes[id], n, typed) /\ UNCHANGED <<rvars, bvars, gvars, vvars, tvars, pvars>>
  \/ \E c \in Clients : ServeGenerate(c) /\ UNCHANGED <<rvars, bvars, gvars, vvars, tvars, pvars>>
  \/ \E c \in Clients : AppendRead(c) /\ UNCHANGED <<rvars, bvars, gvars, vvars, tvars, pvars>>
  \/ \E c \in Clients : AppendWrite(c) /\ UNCHANGED <<rvars, bvars, gvars, vvars, tvars, pvars>>
  \/ \E c \in Clients : UiOnSuccess(c) /\ UNCHANGED <<rvars, bvars, gvars, vvars, tvars, pvars>>
  \/ \E c \in Clients : Finish(c) /\ UNCHANGED <<rvars, bvars, gvars, vvars, tvars, pvars>>

Spec == Init /\ [][Next]_vars

(***************************************************************************)
(* Claims about generation (checked under Spec)                            *)
(***************************************************************************)

ProjectDirOf(c) == join(generatedDir, cl[c].req.projectName)

\* p is dir itself or lies below it.
IsWithin(p, dir) == p = dir \/ startsWith(p, dir \o Slash)

\* The writes of recipe files the last generation of client c made.
RecipeFileWrites(c, kinds) ==
  {cl[c].writes[i] : i \in {j \in 1..Len(cl[c].writes) : cl[c].writes[j].kind \in kinds}}

\* C1: every seed or extra file generateProject writes has a target that is
\* the project directory or lies below it.
C1_WritesStayInProject ==
  \A c \in Clients :
    \A w \in RecipeFileWrites(c, {"seed", "extra"}) :
      IsWithin(w.path, ProjectDirOf(c))

\* C2: every seed file is written inside the seed directory of the project.
C2_SeedFilesStayInSeedDir ==
  \A c \in Clients :
    \A w \in RecipeFileWrites(c, {"seed"}) :
      startsWith(w.path, join(ProjectDirOf(c), <<"s", "e", "e", "d">>) \o Slash)

\* The records persisted outside the rendered project files.
PersistedRecords(records) == {records[i] : i \in 1..Len(records)}

HoldsSecret(r) ==
  \E k \in DOMAIN r.variables : <<k, r.variables[k]>> \in secrets

\* C3: neither the generation index nor the browser's list of recent
\* generations holds the cleartext value of a secret variable.
C3_SecretsNeverPersisted ==
  \A r \in PersistedRecords(readGeneratedIndex(fs)) \cup PersistedRecords(recent) :
    ~HoldsSecret(r)

\* The half of C3 about the generation index alone.
IndexHoldsNoSecret ==
  \A r \in PersistedRecords(readGeneratedIndex(fs)) : ~HoldsSecret(r)

\* The request of client c passes the schema, names a stored recipe and
\* leaves a required variable without value.
HasMissingRequired(c) ==
  /\ ValidGenerateRequest(cl[c].req)
  /\ cl[c].req.recipeId \in DOMAIN recipes
  /\ Len(getMissingRequired(recipes[cl[c].req.recipeId].variables,
                            cl[c].req.variables)) > 0

\* C6: a generate request with a missing required variable is answered with
\* status 400 and the missing keys, changes no directory or file, and never
\* reaches the update of the generation index.
C6_MissingBlocksGeneration ==
  [][ \A c \in Clients :
        /\ (cl[c].pc = "posted" /\ cl'[c].pc # "posted" /\ HasMissingRequired(c))
             => /\ fs' = fs
                /\ cl'[c].pc = "replied"
                /\ cl'[c].status = 400
                /\ cl'[c].missing =
                     getMissingRequired(recipes[cl[c].req.recipeId].variables,
                                        cl[c].req.variables)
        /\ (cl[c].pc \in {"append_read", "append_write"}) => ~HasMissingRequired(c)
    ]_vars

C6_Witness ==
  \E c \in Clients :
    /\ cl[c].pc = "replied" /\ cl[c].status = 400
    /\ cl[c].missing = <<KeyP>>
    /\ fs = ensureDirectories

(***************************************************************************)
(* Claims about the files of a generation (checked under Spec)              *)
(***************************************************************************)

ComposeName == <<"d", "o", "c", "k", "e", "r", "-", "c", "o", "m", "p", "o", "s", "e", ".", "y", "m", "l">>
EnvName == <<".", "e", "n", "v">>
ReadmeName == <<"R", "E", "A", "D", "M", "E", ".", "m", "d">>

\* The file at path p of file system f holds exactly the text t.
HoldsText(f, p, t) == p \in DOMAIN f.files /\ f.files[p] = Text(t)

\* C11: when generateProject returns for a request that passed the
\* missing-required check, docker-compose.yml, .env and README.md of the
\* project hold the three templates rendered under the effective context,
\* and the call returns those same three strings.
C11_FilesAreRenderedTemplates ==
  [][ \A c \in Clients :
        (cl[c].pc = "posted" /\ cl'[c].pc = "append_read") =>
          LET recipe == recipes[cl[c].req.recipeId]
              context == buildContext(recipe.variables, cl[c].req.projectName,
                                      cl[c].req.variables)
              dir == ProjectDirOf(c)
              compose == renderTemplate(recipe.composeTemplate, context)
              env == renderTemplate(recipe.envTemplate, context)
              readme == renderTemplate(recipe.readmeTemplate, context)
          IN  /\ HoldsText(fs', join(dir, ComposeName), compose)
              /\ HoldsText(fs', join(dir, EnvName), env)
              /\ HoldsText(fs', join(dir, ReadmeName), readme)
              /\ cl'[c].files = [compose |-> compose, env |-> env, readme |-> readme]
    ]_vars

\* The part of C11 about the returned strings alone.
ReturnsRenderedTemplates ==
  [][ \A c \in Clients :
        (cl[c].pc = "posted" /\ cl'[c].pc = "append_read") =>
          LET recipe == recipes[cl[c].req.recipeId]
              context == buildContext(recipe.variables, cl[c].req.projectName,
                                      cl[c].req.variables)
          IN  cl'[c].files =
                [compose |-> renderTemplate(recipe.composeTemplate, context),
                 env |-> renderTemplate(recipe.envTemplate, context),
                 readme |-> renderTemplate(recipe.readmeTemplate, context)]
    ]_vars

(***************************************************************************)
(* Claims about the generation index (checked under Spec)                  *)
(***************************************************************************)

\* No appendGeneratedRecord is between its read and its write.
NoAppendInFlight == \A c \in Clients : cl[c].pc # "append_write"

\* C14: the index holds at most one record per project name.
C14_OneRecordPerProject ==
  LET index == readGeneratedIndex(fs)
  IN  \A i, j \in 1..Len(index) :
        index[i].projectName = index[j].projectName => i = j

\* C15: after appendGeneratedRecord(r) the index is r followed by the
\* records the index held before, in unchanged order, cut to the cap.
C15_AppendPrepends ==
  [][ \A c \in Clients :
        (cl[c].pc = "append_write" /\ cl'[c].pc = "replied" /\ cl'[c].status = 200)
          => readGeneratedIndex(fs') =
               Take(<<GeneratedRecord(c)>> \o readGeneratedIndex(fs), IndexCap)
    ]_vars

\* C17: once the index updates are done, two successful generations for
\* different project names both have their record in the index.
C17_NoRecordLost ==
  NoAppendInFlight =>
    \A i, j \in 1..Len(generations) :
      generations[i].projectName # generations[j].projectName
        => /\ generations[i] \in PersistedRecords(readGeneratedIndex(fs))
           /\ generations[j] \in PersistedRecords(readGeneratedIndex(fs))

(***************************************************************************)
(* SpecLongRun: the server after IndexCap - 1 generations of one project   *)
(***************************************************************************)

EarlierProject == <<"q">>

\* The record of the n-th latest of the earlier generations.
EarlierRecord(n) ==
  [projectName |-> EarlierProject,
   recipeId |-> RecipeDb.id,
   createdAt |-> 0 - n,
   path |-> join(generatedDir, EarlierProject),
   variables |-> redactVariables(RecipeDb.variables, NoVariables)]

\* The index those generations leave, newest first.
EarlierIndex == [n \in 1..(IndexCap - 1) |-> EarlierRecord(n)]

\* The file system they leave: the files of the project and the index.
EarlierFs ==
  LET g == generateProject(ensureDirectories, RecipeDb, EarlierProject, NoVariables)
  IN  [g.fs EXCEPT !.files = Put(@, generatedIndex, Json(EarlierIndex))]

InitLongRun ==
  /\ recipes = InitialRecipes
  /\ fs = EarlierFs
  /\ recent = <<>>
  /\ cl = [c \in Clients |-> IdleClient]
  /\ clock = 0
  /\ secrets = SecretBindings(RecipeDb, NoVariables)
  /\ generations = [n \in 1..(IndexCap - 1) |-> EarlierRecord(IndexCap - n)]
  /\ RenderIdle /\ BinderIdle /\ GenerateIdle /\ ValidateIdle /\ StoreIdle /\ PanelIdle

SpecLongRun == InitLongRun /\ [][Next]_vars

\* The last n elements of a sequence, as a set.
LatestOf(s, n) == {s[i] : i \in {j \in 1..Len(s) : j > Len(s) - n}}

\* C16: the index never holds more than the cap, and once it holds that
\* many and no update is in flight, its records are the records of the
\* latest successful generations.
C16_HoldsLatestGenerations ==
  LET index == readGeneratedIndex(fs)
  IN  /\ Len(index) <= IndexCap
      /\ (NoAppendInFlight /\ Len(index) = IndexCap)
           => PersistedRecords(index) = LatestOf(generations, IndexCap)

\* The part of C16 about the size of the index alone.
IndexWithinCap == Len(readGeneratedIndex(fs)) <= IndexCap

(***************************************************************************)
(* SpecGenerate: generateProject applied to recipes with bounded lists of  *)
(* seed and extra files, on the file system the server starts with         *)
(***************************************************************************)

MaxFiles == 2

GenProject == <<"p">>

\* Paths of recipe files: two plain ones, the second below the first (so
\* that the first, once written as a file, is in the way of the second's
\* directory), and one that is a placeholder.
FilePaths == { <<"a">>, <<"a", "/", "b">>, <<"{", "{", "E", "}", "}">> }

RecipeFiles == [path : FilePaths, content : { <<"c">> }]

FileLists == UNION {[1..n -> RecipeFiles] : n \in 0..MaxFiles}

\* Recipes that differ in their seed and extra files only.
GenRecipes ==
  { [id |-> <<"g", "e", "n">>,
     variables |-> << Var(KeyE, <<"e">>, FALSE, FALSE) >>,
     composeTemplate |-> <<"c">>, envTemplate |-> <<"e">>, readmeTemplate |-> <<"r">>,
     seedFiles |-> sf, extraFiles |-> ef] : sf \in FileLists, ef \in FileLists }

\* Values of E: the default, one that leaves the project directory through
\* "..", and an absolute path.
GenOverrides == { NoVariables, (KeyE :> <<".", ".", "/", ".", ".", "/", "x">>), (KeyE :> <<"/", "e", "t", "c", "/", "x">>) }

GenerateInit ==
  /\ grecipe \in GenRecipes
  /\ goverrides \in GenOverrides
  /\ gres = <<>>
  /\ gstate = "ready"
  /\ RenderIdle /\ BinderIdle /\ SystemIdle /\ ValidateIdle /\ StoreIdle /\ PanelIdle

Generate ==
  /\ gstate = "ready"
  /\ gres' = generateProject(ensureDirectories, grecipe, GenProject, goverrides)
  /\ gstate' = "done"
  /\ UNCHANGED <<grecipe, goverrides, rvars, bvars, svars, vvars, tvars, pvars>>

GenerateNext == Generate

SpecGenerate == GenerateInit /\ [][GenerateNext]_vars

(***************************************************************************)
(* Claims about the order of the writes (checked under SpecGenerate)       *)
(***************************************************************************)

GenContext == buildContext(grecipe.variables, GenProject, goverrides)
GenProjectDir == join(generatedDir, GenProject)

\* The seed files followed by the extra files, each with its kind.
FilesInOrder ==
  [i \in 1..Len(grecipe.seedFiles) |-> [file |-> grecipe.seedFiles[i], kind |-> "seed"]]
  \o [i \in 1..Len(grecipe.extraFiles) |-> [file |-> grecipe.extraFiles[i], kind |-> "extra"]]

\* The sandbox check of the file at position i of that order.
TargetOf(i) ==
  LET rendered == renderTemplate(FilesInOrder[i].file.path, GenContext)
  IN  safeJoin(GenProjectDir,
               IF FilesInOrder[i].kind = "seed" THEN join(<<"s", "e", "e", "d">>, rendered)
               ELSE rendered)

\* The positions whose rendered path fails the sandbox check.
Rejected == {i \in 1..Len(FilesInOrder) : ~TargetOf(i).ok}

FirstRejected == CHOOSE k \in Rejected : \A j \in Rejected : k <= j

\* The writes of a call that goes as far as position k - 1.
WritesBefore(k) ==
  << [path |-> join(GenProjectDir, ComposeName), kind |-> "compose"],
     [path |-> join(GenProjectDir, EnvName), kind |-> "env"],
     [path |-> join(GenProjectDir, ReadmeName), kind |-> "readme"] >>
  \o [i \in 1..(k - 1) |-> [path |-> TargetOf(i).path, kind |-> FilesInOrder[i].kind]]

IsPrefix(s, t) == Len(s) <= Len(t) /\ s = SubSeq(t, 1, Len(s))

WrittenPaths(ws) == {ws[i].path : i \in 1..Len(ws)}

\* C18: when the file at position k is the first whose path fails the
\* sandbox check, the call fails; it has written, in order, nothing but the
\* three project files and the files before k, it fails on the sandbox
\* check exactly when it got as far as k, and the files on disk are the
\* ones the server started with and the ones the call wrote.
C18_AbortsAtFirstRejected ==
  (gstate = "done" /\ Rejected # {}) =>
    /\ ~gres.ok
    /\ IsPrefix(gres.writes, WritesBefore(FirstRejected))
    /\ (gres.err = "Invalid file path") <=> (gres.writes = WritesBefore(FirstRejected))
    /\ DOMAIN gres.fs.files =
         DOMAIN ensureDirectories.files \cup WrittenPaths(gres.writes)

\* A seed file is written, the second seed file is rejected, and the extra
\* file after it is not written.
C18_Witness ==
  /\ gstate = "done"
  /\ Len(grecipe.seedFiles) = 2 /\ Len(grecipe.extraFiles) = 1
  /\ Rejected # {} /\ FirstRejected = 2
  /\ gres.err = "Invalid file path"
  /\ Len(gres.writes) = 4
  /\ TargetOf(1).path \in DOMAIN gres.fs.files
  /\ TargetOf(3).ok /\ TargetOf(3).path \notin DOMAIN gres.fs.files

(***************************************************************************)
(* The recipe schema (backend/src/schema.ts) as zod applies it             *)
(***************************************************************************)

\* A key that the parsed document does not have. No string and no array
\* equals it: those are sequences, and their domain is 1..n.
Undefined == [x \in {0} |-> "undefined"]

IsUndefined(v) == DOMAIN v = {0} /\ v[0] = "undefined"

\* The values of a parsed document that are neither a string nor a missing
\* key: null, a boolean, a number.
NonString(type) == [x \in {0} |-> type]

IsNonString(v) == DOMAIN v = {0} /\ v[0] # "undefined"

UpperAlpha ==
  {"A", "B", "C", "D", "E", "F", "G", "H", "I", "J", "K", "L", "M", "N", "O",
   "P", "Q", "R", "S", "T", "U", "V", "W", "X", "Y", "Z"}
Digits == <<"0", "1", "2", "3", "4", "5", "6", "7", "8", "9">>

\* /^[A-Z][A-Z0-9_]*$/
MatchesVariableKey(s) ==
  /\ Len(s) >= 1
  /\ s[1] \in UpperAlpha
  /\ \A i \in 2..Len(s) : s[i] \in UpperAlpha \cup {"_"} \cup {Digits[n] : n \in 1..10}

\* /^[a-z0-9]+(?:-[a-z0-9]+)*$/
MatchesRecipeId(s) ==
  /\ Len(s) >= 1
  /\ \A i \in 1..Len(s) : s[i] \in LowerAlnum \cup {"-"}
  /\ s[1] # "-" /\ s[Len(s)] # "-"
  /\ \A i \in 1..(Len(s) - 1) : ~(s[i] = "-" /\ s[i + 1] = "-")

Issue(path, message) == [path |-> path, message |-> message]

\* z.string() with one check: the issue of a missing key, else the issue of
\* the failing check.
StringIssues(v, path, check) ==
  IF IsUndefined(v) THEN << Issue(path, "Required") >>
  ELSE IF IsNonString(v)
       THEN << Issue(path, IF v[0] = "null" THEN "Expected string, received null"
                           ELSE IF v[0] = "boolean" THEN "Expected string, received boolean"
                           ELSE "Expected string, received number") >>
  ELSE IF check = "min1" /\ Len(v) < 1
       THEN << Issue(path, "String must contain at least 1 character(s)") >>
  ELSE IF check = "id" /\ ~MatchesRecipeId(v) THEN << Issue(path, "Invalid") >>
  ELSE IF check = "key" /\ ~MatchesVariableKey(v) THEN << Issue(path, "Invalid") >>
  ELSE <<>>

\* .optional(): a missing key passes.
OptionalIssues(v, issues) == IF IsUndefined(v) THEN <<>> ELSE issues

RECURSIVE ArrayIssues(_, _, _, _)
\* z.array(element): the issues of every element, in order; element names
\* the schema of the elements (a min(1) string, RecipeVariableSchema or
\* RecipeFileSchema).
ArrayIssues(a, path, i, element) ==
  IF IsUndefined(a) THEN << Issue(path, "Required") >>
  ELSE IF i > Len(a) THEN <<>>
  ELSE (LET p == Append(path, <<Digits[i]>>)
        IN  IF element = "string" THEN StringIssues(a[i], p, "min1")
            ELSE IF element = "variable"
            THEN StringIssues(a[i].key, Append(p, <<"k", "e", "y">>), "key")
                 \o StringIssues(a[i].label, Append(p, <<"l", "a", "b", "e", "l">>), "min1")
                 \o StringIssues(a[i].default, Append(p, <<"d", "e", "f", "a", "u", "l", "t">>), "any")
                 \o OptionalIssues(a[i].options,
                                   ArrayIssues(a[i].options, Append(p, <<"o", "p", "t", "i", "o", "n", "s">>), 1, "string"))
                 \o OptionalIssues(a[i].description,
                                   StringIssues(a[i].description, Append(p, <<"d", "e", "s", "c", "r", "i", "p", "t", "i", "o", "n">>), "any"))
            ELSE StringIssues(a[i].path, Append(p, <<"p", "a", "t", "h">>), "min1")
                 \o StringIssues(a[i].content, Append(p, <<"c", "o", "n", "t", "e", "n", "t">>), "any"))
       \o ArrayIssues(a, path, i + 1, element)

Difficulties == { <<"e", "a", "s", "y">>, <<"m", "e", "d", "i", "u", "m">>, <<"h", "a", "r", "d">> }

\* RecipeSchema.safeParse(d).error.issues, every path below prefix: zod
\* parses every key of the object and collects the issues of all of them.
\* The boolean fields of the documents modelled are booleans.
RecipeSchema(d, prefix) ==
  StringIssues(d.id, Append(prefix, <<"i", "d">>), "id")
  \o StringIssues(d.name, Append(prefix, <<"n", "a", "m", "e">>), "min1")
  \o StringIssues(d.description, Append(prefix, <<"d", "e", "s", "c", "r", "i", "p", "t", "i", "o", "n">>), "min1")
  \o ArrayIssues(d.tags, Append(prefix, <<"t", "a", "g", "s">>), 1, "string")
  \o (IF IsUndefined(d.difficulty) THEN << Issue(Append(prefix, <<"d", "i", "f", "f", "i", "c", "u", "l", "t", "y">>), "Required") >>
      ELSE IF d.difficulty \notin Difficulties
           THEN << Issue(Append(prefix, <<"d", "i", "f", "f", "i", "c", "u", "l", "t", "y">>), "Invalid enum value") >>
      ELSE <<>>)
  \o ArrayIssues(d.variables, Append(prefix, <<"v", "a", "r", "i", "a", "b", "l", "e", "s">>), 1, "variable")
  \o StringIssues(d.composeTemplate, Append(prefix, <<"c", "o", "m", "p", "o", "s", "e", "T", "e", "m", "p", "l", "a", "t", "e">>), "min1")
  \o StringIssues(d.envTemplate, Append(prefix, <<"e", "n", "v", "T", "e", "m", "p", "l", "a", "t", "e">>), "min1")
  \o StringIssues(d.readmeTemplate, Append(prefix, <<"r", "e", "a", "d", "m", "e", "T", "e", "m", "p", "l", "a", "t", "e">>), "min1")
  \o OptionalIssues(d.seedFiles, ArrayIssues(d.seedFiles, Append(prefix, <<"s", "e", "e", "d", "F", "i", "l", "e", "s">>), 1, "file"))
  \o OptionalIssues(d.extraFiles, ArrayIssues(d.extraFiles, Append(prefix, <<"e", "x", "t", "r", "a", "F", "i", "l", "e", "s">>), 1, "file"))

RECURSIVE JoinDot(_)
\* issue.path.join(".")
JoinDot(path) ==
  IF Len(path) = 0 THEN <<>>
  ELSE IF Len(path) = 1 THEN path[1]
  ELSE path[1] \o <<".">> \o JoinDot(Tail(path))

(***************************************************************************)
(* js-yaml: yaml.dump and yaml.load on recipe documents.  A YAML text is    *)
(* modelled by its mapping, where every string is a scalar written plain   *)
(* or quoted; a plain scalar is read back by its look: as null, as a       *)
(* boolean, as a number, else as a string.                                  *)
(***************************************************************************)

NullTexts == { <<>>, <<"~">>, <<"n", "u", "l", "l">> }
BooleanTexts == { <<"t", "r", "u", "e">>, <<"f", "a", "l", "s", "e">> }

\* The type a plain scalar with this text is resolved to.
ResolvedType(text) ==
  IF text \in NullTexts THEN "null"
  ELSE IF text \in BooleanTexts THEN "boolean"
  ELSE IF Len(text) >= 1 /\ \A i \in 1..Len(text) : text[i] \in {Digits[n] : n \in 1..10}
       THEN "number"
  ELSE "string"

\* Writing a string, every string as a plain scalar.
plainString(v) ==
  IF IsUndefined(v) THEN Undefined ELSE [style |-> "plain", text |-> v]

\* Writing a string: quoted when the plain scalar would not be read back as
\* a string.  A key without value is not written.
dumpString(v) ==
  IF IsUndefined(v) THEN Undefined
  ELSE [style |-> IF ResolvedType(v) = "string" THEN "plain" ELSE "quoted", text |-> v]

\* Reading a scalar.
loadScalar(y) ==
  IF IsUndefined(y) THEN Undefined
  ELSE IF y.style = "plain" /\ ResolvedType(y.text) # "string"
       THEN NonString(ResolvedType(y.text))
  ELSE y.text

\* A recipe document with every string below it written ("dump", "plain")
\* or read ("load"); a list that may be missing is mapped element by element.
MapStrings(d, how) ==
  LET S(v) == IF how = "dump" THEN dumpString(v)
              ELSE IF how = "load" THEN loadScalar(v)
              ELSE plainString(v)
      MapList(a, F(_)) == IF IsUndefined(a) THEN Undefined ELSE [i \in 1..Len(a) |-> F(a[i])]
      Variable(v) == [key |-> S(v.key), label |-> S(v.label), default |-> S(v.default),
                      required |-> v.required, secret |-> v.secret,
                      options |-> MapList(v.options, S),
                      description |-> S(v.description)]
      File(f) == [path |-> S(f.path), content |-> S(f.content)]
  IN  [id |-> S(d.id), name |-> S(d.name), description |-> S(d.description),
       tags |-> MapList(d.tags, S), difficulty |-> S(d.difficulty),
       variables |-> MapList(d.variables, Variable),
       composeTemplate |-> S(d.composeTemplate), envTemplate |-> S(d.envTemplate),
       readmeTemplate |-> S(d.readmeTemplate),
       seedFiles |-> MapList(d.seedFiles, File),
       extraFiles |-> MapList(d.extraFiles, File)]

\* Mutant: yaml.dump writes every string as a plain scalar.
dump_allPlain(d) == [kind |-> "yaml", doc |-> MapStrings(d, "plain")]

\* yaml.dump(recipe, { lineWidth: 120 })
dump(d) == [kind |-> "yaml", doc |-> MapStrings(d, "dump")]

\* yaml.load(raw) of a text that yaml.dump wrote.
load(y) == MapStrings(y.doc, "load")

\* parseRecipeYaml(yamlText).error.issues
parseRecipeYaml(yamlText) == RecipeSchema(load(yamlText), <<>>)

\* ValidateRequestSchema.safeParse(body).error.issues for a body that holds
\* the document d as yamlText, as recipe, or holds neither.
ValidateRequestSchema(bodyForm, d) ==
  IF bodyForm = "recipe" THEN RecipeSchema(d, << <<"r", "e", "c", "i", "p", "e">> >>)
  ELSE IF bodyForm = "yamlText" THEN <<>>
  ELSE << Issue(<<>>, "Provide yamlText or recipe") >>

\* The two shapes of the entries of a reply's errors array:
\* issue.message alone, and { path, message }.
MessageOnly(issue) == [path |-> Undefined, message |-> issue.message]
PathAndMessage(issue) == [path |-> JoinDot(issue.path), message |-> issue.message]

ErrorsOf(issues, entry) ==
  [i \in 1..Len(issues) |->
     IF entry = "message" THEN MessageOnly(issues[i]) ELSE PathAndMessage(issues[i])]

\* The reply of POST /api/recipes/validate.
validate(bodyForm, d) ==
  LET requestIssues == ValidateRequestSchema(bodyForm, d)
      recipeIssues == IF bodyForm = "recipe" THEN RecipeSchema(d, <<>>)
                      ELSE parseRecipeYaml(dump(d))
  IN  IF Len(requestIssues) > 0
      THEN [status |-> 400, ok |-> FALSE,
            errors |-> ErrorsOf(requestIssues, "message"), recipe |-> Undefined]
      ELSE IF Len(recipeIssues) > 0
      THEN [status |-> 400, ok |-> FALSE,
            errors |-> ErrorsOf(recipeIssues, "pathAndMessage"), recipe |-> Undefined]
      ELSE [status |-> 200, ok |-> TRUE, errors |-> <<>>, recipe |-> d]

(***************************************************************************)
(* SpecValidate: POST /api/recipes/validate applied to bounded documents   *)
(***************************************************************************)

\* Entries of a document's variables list: the key and the label are
\* valid or not.
VarDocs ==
  [key : { KeyA, <<"a">> }, label : { <<"l">>, <<>> }, default : { <<"d">> },
   required : { TRUE }, secret : { FALSE },
   options : { Undefined }, description : { Undefined }]

VarDocLists == UNION {[1..n -> VarDocs] : n \in 0..MaxVars}

\* Parsed documents: id, name, variables and composeTemplate are valid or
\* not, the other fields are valid.
Documents ==
  [id : { <<"w", "e", "b">>, <<"W">>, Undefined }, name : { <<"n">>, <<>> },
   description : { <<"d">> }, tags : { <<>> }, difficulty : { <<"e", "a", "s", "y">> },
   variables : VarDocLists,
   composeTemplate : { <<"c">>, <<>> }, envTemplate : { <<"e">> }, readmeTemplate : { <<"r">> },
   seedFiles : { Undefined }, extraFiles : { Undefined }]

BodyForms == { "yamlText", "recipe", "none" }

ValidateInit ==
  /\ doc \in Documents
  /\ form \in BodyForms
  /\ vreply = <<>>
  /\ vstate = "ready"
  /\ RenderIdle /\ BinderIdle /\ SystemIdle /\ GenerateIdle /\ StoreIdle /\ PanelIdle

PostValidate ==
  /\ vstate = "ready"
  /\ vreply' = validate(form, doc)
  /\ vstate' = "done"
  /\ UNCHANGED <<doc, form, rvars, bvars, svars, gvars, tvars, pvars>>

ValidateNext == PostValidate

SpecValidate == ValidateInit /\ [][ValidateNext]_vars

(***************************************************************************)
(* Claims about validation (checked under SpecValidate)                    *)
(***************************************************************************)

\* The fields of the document that break a rule of the schema, as dotted
\* paths.
FailingFields ==
  { <<"i", "d">> : x \in {1} \cap (IF IsUndefined(doc.id) \/ ~MatchesRecipeId(doc.id) THEN {1} ELSE {}) }
  \cup { <<"n", "a", "m", "e">> : x \in {1} \cap (IF Len(doc.name) < 1 THEN {1} ELSE {}) }
  \cup { <<"c", "o", "m", "p", "o", "s", "e", "T", "e", "m", "p", "l", "a", "t", "e">> : x \in {1} \cap (IF Len(doc.composeTemplate) < 1 THEN {1} ELSE {}) }
  \cup { <<"v", "a", "r", "i", "a", "b", "l", "e", "s", ".">> \o <<Digits[i]>> \o <<".", "k", "e", "y">> :
           i \in {j \in 1..Len(doc.variables) : ~MatchesVariableKey(doc.variables[j].key)} }
  \cup { <<"v", "a", "r", "i", "a", "b", "l", "e", "s", ".">> \o <<Digits[i]>> \o <<".", "l", "a", "b", "e", "l">> :
           i \in {j \in 1..Len(doc.variables) : Len(doc.variables[j].label) < 1} }

Entries(errors) == {errors[i] : i \in 1..Len(errors)}

\* C12: a document is accepted only if no field breaks a rule, and the
\* reply to a rejected document has an entry with the field path and a
\* message for each failing field.
C12_EveryFailingFieldReported ==
  (vstate = "done" /\ form # "none") =>
    /\ vreply.ok <=> FailingFields = {}
    /\ ~vreply.ok =>
         /\ vreply.status = 400
         /\ Len(vreply.errors) > 0
         /\ \A f \in FailingFields :
              \E e \in Entries(vreply.errors) :
                ~IsUndefined(e.path) /\ e.path = f /\ e.message # ""

\* The part of C12 that does not depend on the shape of the entries: the
\* verdict, and one entry for each failing field.
AllOrNothingAndCollected ==
  (vstate = "done" /\ form # "none") =>
    /\ vreply.ok <=> FailingFields = {}
    /\ ~vreply.ok => Len(vreply.errors) = Cardinality(FailingFields)

\* The reply to a document sent as yamlText is as C12 says.
ReportedForYamlText == form = "yamlText" => C12_EveryFailingFieldReported

\* C13: every document the validator accepts as a recipe has pairwise
\* distinct variable keys.
C13_AcceptedKeysDistinct ==
  (vstate = "done" /\ vreply.ok) =>
    \A i, j \in 1..Len(doc.variables) :
      doc.variables[i].key = doc.variables[j].key => i = j

(***************************************************************************)
(* The recipe store (backend/src/recipes.ts) and its endpoints             *)
(***************************************************************************)

\* recipeFilePath
recipeFilePath(id) == join(recipesDir, id \o <<".", "y", "m", "l">>)

\* fs.readFile: the content, or the error of a missing file.
readFile(f, p) ==
  IF p \in DOMAIN f.files THEN [ok |-> TRUE, content |-> f.files[p]]
  ELSE [ok |-> FALSE, content |-> <<>>]

\* fs.unlink: removes the file, fails when there is none.
unlink(f, p) ==
  IF p \in DOMAIN f.files
  THEN [ok |-> TRUE, fs |-> [f EXCEPT !.files = [x \in DOMAIN @ \ {p} |-> @[x]]]]
  ELSE [ok |-> FALSE, fs |-> f]

\* new Date().toISOString().replace(/[:.]/g, "-") at millisecond t: a text
\* that differs exactly when the millisecond differs.
timestamp(t) == <<Digits[t + 1]>>

\* saveRecipe
saveRecipe(f, recipe) == writeFile(f, recipeFilePath(recipe.id), dump(recipe))

\* getRecipeById: { recipe, yamlText } for a file that holds a valid recipe,
\* { yamlText, errors } for a file that holds something else (a rendered
\* text and a JSON array are YAML texts, but no recipe), { errors } when the
\* file cannot be read; hasText tells whether yamlText is there.
getRecipeById(f, id) ==
  LET r == readFile(f, recipeFilePath(id)) IN
  IF ~r.ok
  THEN [found |-> FALSE, recipe |-> Undefined, hasText |-> FALSE, yamlText |-> <<>>,
        errors |-> << "Recipe not found" >>]
  ELSE IF r.content.kind # "yaml"
  THEN [found |-> FALSE, recipe |-> Undefined, hasText |-> TRUE, yamlText |-> r.content,
        errors |-> << "Expected object, received string" >>]
  ELSE \* RecipeSchema.safeParse(yaml.load(raw))
       TheOne({ IF Len(RecipeSchema(parsed, <<>>)) > 0
                THEN [found |-> FALSE, recipe |-> Undefined, hasText |-> TRUE,
                      yamlText |-> r.content,
                      errors |-> [i \in 1..Len(RecipeSchema(parsed, <<>>)) |->
                                    RecipeSchema(parsed, <<>>)[i].message]]
                ELSE [found |-> TRUE, recipe |-> parsed, hasText |-> TRUE,
                      yamlText |-> r.content,
                      errors |-> <<>>] :
                parsed \in {load(r.content)} })

\* The first lines of the create and of the update handler: the body is
\* parsed with ValidateRequestSchema.parse, which throws on a body it
\* rejects, then the recipe is validated.
parseBody(bodyForm, d) ==
  LET recipeIssues == IF bodyForm = "recipe" THEN RecipeSchema(d, <<>>)
                      ELSE parseRecipeYaml(dump(d))
  IN  IF Len(ValidateRequestSchema(bodyForm, d)) > 0
      THEN [status |-> 500, errors |-> <<>>]
      ELSE IF Len(recipeIssues) > 0
      THEN [status |-> 400, errors |-> ErrorsOf(recipeIssues, "message")]
      ELSE [status |-> 200, errors |-> <<>>]

\* Mutant: the id of the body is not compared with the id of the URL.
idMismatch_never(validated, id) == FALSE

\* if (validated.id !== params.id) of the update handler.
idMismatch(validated, id) == validated.id # id

MismatchErrors == << [path |-> Undefined, message |-> "Recipe id mismatch"] >>

MaxRequests == 2
MaxNow == 1

IdleCaller ==
  [pc |-> "idle", op |-> "", id |-> <<>>, form |-> "", doc |-> <<>>,
   existing |-> <<>>, status |-> 0, errors |-> <<>>,
   hasText |-> FALSE, yamlText |-> <<>>]

Answer(c, op, id, bodyForm, d, status, errors) ==
  st' = [st EXCEPT ![c] = [IdleCaller EXCEPT !.pc = "replied", !.op = op, !.id = id,
                              !.form = bodyForm, !.doc = d,
                              !.status = status, !.errors = errors]]

\* GET /api/recipes/:id
GetRecipe(c, id) ==
  /\ st[c].pc = "idle" /\ clock < MaxRequests
  /\ clock' = clock + 1
  /\ \E r \in {getRecipeById(fs, id)} :
       st' = [st EXCEPT ![c] =
                [IdleCaller EXCEPT !.pc = "replied", !.op = "get", !.id = id,
                   !.status = IF r.found THEN 200 ELSE 404,
                   !.hasText = r.hasText, !.yamlText = r.yamlText]]
  /\ UNCHANGED <<fs, now, replaced, recipes, recent, cl, secrets, generations>>

\* POST /api/recipes
PostRecipe(c, bodyForm, d) ==
  /\ st[c].pc = "idle" /\ clock < MaxRequests
  /\ clock' = clock + 1
  /\ \E parsed \in {parseBody(bodyForm, d)} :
       IF parsed.status # 200
       THEN /\ Answer(c, "post", <<>>, bodyForm, d, parsed.status, parsed.errors)
            /\ UNCHANGED fs
       ELSE \E w \in {saveRecipe(fs, d)} :
              /\ fs' = w.fs
              /\ Answer(c, "post", <<>>, bodyForm, d, IF w.ok THEN 200 ELSE 500, <<>>)
  /\ UNCHANGED <<now, replaced, recipes, recent, cl, secrets, generations>>

\* PUT /api/recipes/:id up to the first await of updateRecipe:
\* existing = await fs.readFile(filePath)
PutRecipe(c, id, bodyForm, d) ==
  /\ st[c].pc = "idle" /\ clock < MaxRequests
  /\ clock' = clock + 1
  /\ \E parsed \in {parseBody(bodyForm, d)} :
       IF parsed.status # 200
       THEN Answer(c, "put", id, bodyForm, d, parsed.status, parsed.errors)
       ELSE IF idMismatch(d, id)
       THEN Answer(c, "put", id, bodyForm, d, 400, MismatchErrors)
       ELSE \E r \in {readFile(fs, recipeFilePath(id))} :
              IF ~r.ok THEN Answer(c, "put", id, bodyForm, d, 500, <<>>)
              ELSE st' = [st EXCEPT ![c] =
                            [IdleCaller EXCEPT !.pc = "snapshot", !.op = "put", !.id = id,
                               !.form = bodyForm, !.doc = d, !.existing = r.content]]
  /\ UNCHANGED <<fs, now, replaced, recipes, recent, cl, secrets, generations>>

\* updateRecipe: the history directory is made and the snapshot written
\* under the timestamp of this moment.
UpdateSnapshot(c) ==
  LET historyPath == join(historyDir, st[c].id)
      made == mkdir(fs, historyPath)
      w == writeFile(made.fs, join(historyPath, timestamp(now) \o <<".", "y", "m", "l">>), st[c].existing)
  IN  /\ st[c].pc = "snapshot"
      /\ fs' = w.fs
      /\ st' = [st EXCEPT ![c].pc = IF made.ok /\ w.ok THEN "replace" ELSE "replied",
                          ![c].status = IF made.ok /\ w.ok THEN 0 ELSE 500]
      /\ UNCHANGED <<now, replaced, recipes, recent, cl, clock, secrets, generations>>

\* updateRecipe: the recipe file is replaced, and the handler replies.
UpdateReplace(c) ==
  LET filePath == recipeFilePath(st[c].id)
      w == writeFile(fs, filePath, dump(st[c].doc))
  IN  /\ st[c].pc = "replace"
      /\ fs' = w.fs
      /\ replaced' = IF w.ok /\ filePath \in DOMAIN fs.files
                     THEN replaced \cup {<<st[c].id, fs.files[filePath]>>}
                     ELSE replaced
      /\ st' = [st EXCEPT ![c].pc = "replied",
                          ![c].status = IF w.ok THEN 200 ELSE 500]
      /\ UNCHANGED <<now, recipes, recent, cl, clock, secrets, generations>>

\* DELETE /api/recipes/:id
DeleteRecipe(c, id) ==
  /\ st[c].pc = "idle" /\ clock < MaxRequests
  /\ clock' = clock + 1
  /\ \E u \in {unlink(fs, recipeFilePath(id))} :
       /\ fs' = u.fs
       /\ Answer(c, "delete", id, "", <<>>, IF u.ok THEN 200 ELSE 500, <<>>)
  /\ UNCHANGED <<now, replaced, recipes, recent, cl, secrets, generations>>

\* The caller has its reply.
Return(c) ==
  /\ st[c].pc = "replied"
  /\ st' = [st EXCEPT ![c] = IdleCaller]
  /\ UNCHANGED <<fs, now, replaced, recipes, recent, cl, clock, secrets, generations>>

\* A millisecond passes.
Tick ==
  /\ now < MaxNow
  /\ now' = now + 1
  /\ UNCHANGED <<fs, st, replaced, recipes, recent, cl, clock, secrets, generations>>

(***************************************************************************)
(* SpecStore: callers of the recipe endpoints                              *)
(***************************************************************************)

WebId == <<"w", "e", "b">>
DbId == <<"d", "b">>

\* A valid recipe document but for its id, should that break the rule.
RecipeDoc(id, name) ==
  [id |-> id, name |-> name, description |-> <<"d">>, tags |-> <<>>,
   difficulty |-> <<"e", "a", "s", "y">>, variables |-> <<>>,
   composeTemplate |-> <<"c">>, envTemplate |-> <<"e">>, readmeTemplate |-> <<"r">>,
   seedFiles |-> Undefined, extraFiles |-> Undefined]

\* Two versions of each of two recipes, and a document with an invalid id.
StoreDocs ==
  { RecipeDoc(id, name) : id \in {WebId, DbId}, name \in { <<"n">>, <<"m">> } }
  \cup { RecipeDoc(<<"W">>, <<"n">>) }

\* Bodies: every document as yamlText, and one valid and the invalid one
\* as recipe object.
StoreBodies ==
  { <<"yamlText", d>> : d \in StoreDocs }
  \cup { <<"recipe", RecipeDoc(WebId, <<"m">>)>>, <<"recipe", RecipeDoc(<<"W">>, <<"n">>)>> }

\* An id in a URL that names a file of the generated project q:
\* ../generated/q/docker-compose
TraversalId == <<".", ".", "/", "g", "e", "n", "e", "r", "a", "t", "e", "d", "/", "q", "/", "d", "o", "c", "k", "e", "r", "-", "c", "o", "m", "p", "o", "s", "e">>

\* The server starts with the recipe web stored, and with the project q that
\* was generated earlier.
StoreInitFs ==
  LET g == generateProject(ensureDirectories, RecipeDb, EarlierProject, NoVariables)
  IN  [g.fs EXCEPT
         !.files = Put(Put(@, generatedIndex, Json(<< EarlierRecord(1) >>)),
                       recipeFilePath(WebId), dump(RecipeDoc(WebId, <<"n">>)))]

StoreInit ==
  /\ fs = StoreInitFs
  /\ st = [c \in Clients |-> IdleCaller]
  /\ now = 0
  /\ replaced = {}
  /\ recipes = <<>> /\ recent = <<>> /\ cl = <<>>
  /\ clock = 0 /\ secrets = {} /\ generations = <<>>
  /\ RenderIdle /\ BinderIdle /\ GenerateIdle /\ ValidateIdle /\ PanelIdle

StoreNext ==
  \/ \E c \in Clients, b \in StoreBodies :
       PostRecipe(c, b[1], b[2]) /\ UNCHANGED <<rvars, bvars, gvars, vvars, pvars>>
  \/ \E c \in Clients, id \in {WebId, DbId}, b \in StoreBodies :
       PutRecipe(c, id, b[1], b[2]) /\ UNCHANGED <<rvars, bvars, gvars, vvars, pvars>>
  \/ \E c \in Clients : UpdateSnapshot(c) /\ UNCHANGED <<rvars, bvars, gvars, vvars, pvars>>
  \/ \E c \in Clients : UpdateReplace(c) /\ UNCHANGED <<rvars, bvars, gvars, vvars, pvars>>
  \/ \E c \in Clients, id \in {WebId, DbId, TraversalId} :
       DeleteRecipe(c, id) /\ UNCHANGED <<rvars, bvars, gvars, vvars, pvars>>
  \/ \E c \in Clients, id \in {WebId, TraversalId} :
       GetRecipe(c, id) /\ UNCHANGED <<rvars, bvars, gvars, vvars, pvars>>
  \/ \E c \in Clients : Return(c) /\ UNCHANGED <<rvars, bvars, gvars, vvars, pvars>>
  \/ Tick /\ UNCHANGED <<rvars, bvars, gvars, vvars, pvars>>

SpecStore == StoreInit /\ [][StoreNext]_vars

(***************************************************************************)
(* Claims about the recipe store (checked under SpecStore)                 *)
(***************************************************************************)

\* The snapshots of recipe id: the contents of the files below its history
\* directory.
SnapshotsOf(id) ==
  { fs.files[p] : p \in {q \in DOMAIN fs.files :
                           startsWith(q, join(historyDir, id) \o Slash)} }

\* C19: every version of a recipe that an update replaced is present in
\* the history directory of the recipe.
C19_ReplacedVersionsInHistory ==
  \A r \in replaced : r[2] \in SnapshotsOf(r[1])

\* The recipe files: the .yml files directly in the recipes directory.
RecipeFilesOnDisk ==
  { p \in DOMAIN fs.files :
      /\ dirname(p) = recipesDir
      /\ Len(p) > 4 /\ SubSeq(p, Len(p) - 3, Len(p)) = <<".", "y", "m", "l">> }

\* The file stored under <id>.yml holds a recipe whose id is <id>.
StoredUnderOwnId ==
  \A p \in RecipeFilesOnDisk :
    /\ fs.files[p].kind = "yaml"
    /\ p = recipeFilePath(load(fs.files[p]).id)

\* An update request whose valid body names another id than the URL is
\* answered 400 and leaves every file as it is.
MismatchRejected ==
  \A c \in Clients :
    (/\ st[c].pc = "idle" /\ st'[c].pc # "idle" /\ st'[c].op = "put"
     /\ parseBody(st'[c].form, st'[c].doc).status = 200
     /\ st'[c].doc.id # st'[c].id)
      => /\ st'[c].pc = "replied" /\ st'[c].status = 400
         /\ st'[c].errors = MismatchErrors
         /\ fs' = fs

\* C20: every recipe file holds a recipe whose id is the file's key, and an
\* update whose body id differs from the URL id is rejected and changes
\* neither the store nor the history.
C20_StoredUnderOwnId == [](StoredUnderOwnId) /\ [][MismatchRejected]_vars

\* An update of web with the body of db was rejected, and db was created
\* through the API next to web.
C20_Witness ==
  /\ \E c \in Clients :
       /\ st[c].pc = "replied" /\ st[c].op = "put" /\ st[c].status = 400
       /\ st[c].id = WebId /\ st[c].doc.id = DbId
  /\ recipeFilePath(DbId) \in DOMAIN fs.files
  /\ recipeFilePath(WebId) \in DOMAIN fs.files

(***************************************************************************)
(* Claims about the rejection of requests (checked under Spec)             *)
(***************************************************************************)

\* C21: a generate request whose project name does not match
\* ^[a-z0-9][a-z0-9-]*$ is answered with status 400 before any recipe is
\* looked up (so never 404, and with no list of missing variables), creates
\* no directory or file, and never reaches the update of the generation index.
C21_InvalidNameRejected ==
  [][ \A c \in Clients :
        /\ (cl[c].pc = "posted" /\ cl'[c].pc # "posted"
              /\ ~MatchesProjectName(cl[c].req.projectName))
             => /\ fs' = fs
                /\ generations' = generations
                /\ cl'[c].pc = "replied"
                /\ cl'[c].status = 400
                /\ cl'[c].missing = <<>>
        /\ (cl[c].pc \in {"append_read", "append_write"})
             => MatchesProjectName(cl[c].req.projectName)
    ]_vars

C21_Witness ==
  \E c, d \in Clients :
    /\ cl[c].pc = "replied" /\ cl[c].status = 400
    /\ cl[c].req = Request(RecipeDb.id, <<"P">>, NoVariables)
    /\ cl[d].pc = "replied" /\ cl[d].status = 400
    /\ cl[d].req = Request(UnknownRecipeId, <<"P">>, NoVariables)
    /\ fs = ensureDirectories

\* C26: a generate request that the handler answers without reaching
\* appendGeneratedRecord (recipe not found, missing required variable,
\* sandbox rejection, file system error) leaves the index file as it was, and
\* the index update is reached only by a request whose generateProject
\* returned.
C26_FailureLeavesIndex ==
  [][ \A c \in Clients :
        /\ (cl[c].pc = "posted" /\ cl'[c].pc = "replied")
             => /\ generatedIndex \in DOMAIN fs'.files
                /\ fs'.files[generatedIndex] = fs.files[generatedIndex]
        /\ (cl[c].pc = "posted" /\ cl'[c].pc = "append_read")
             => generateProject(fs, recipes[cl[c].req.recipeId],
                                cl[c].req.projectName, cl[c].req.variables).ok
    ]_vars

(***************************************************************************)
(* Claims about the check and the context together (checked under          *)
(* SpecBinder)                                                             *)
(***************************************************************************)

\* C27: when getMissingRequired returns no key, every variable declared
\* required is bound to a non-empty string in the context generateProject
\* builds from the same recipe and the same variables.
C27_RequiredBoundInContext ==
  ({"context", "missing"} \subseteq bdone /\ bmissing = <<>>)
    => \A i \in 1..Len(rvs) :
         rvs[i].required => (rvs[i].key \in DOMAIN bctx /\ bctx[rvs[i].key] # <<>>)

\* The same for the recipes that declare no key twice.
RequiredBoundWhenKeysDistinct ==
  (\A i, j \in 1..Len(rvs) : rvs[i].key = rvs[j].key => i = j)
    => C27_RequiredBoundInContext

(***************************************************************************)
(* Claims about create, update and delete (checked under SpecStore)        *)
(***************************************************************************)

\* C24: a create or update request whose recipe fails validation is answered
\* with status 400 and a non-empty list of errors, and changes no file of the
\* recipe store or of the history.
C24_InvalidRecipeAnswered400 ==
  [][ \A c \in Clients :
        (/\ st[c].pc = "idle" /\ st'[c].pc # "idle"
         /\ st'[c].op \in {"post", "put"}
         /\ Len(RecipeSchema(st'[c].doc, <<>>)) > 0)
          => /\ st'[c].pc = "replied"
             /\ st'[c].status = 400
             /\ Len(st'[c].errors) > 0
             /\ fs' = fs
    ]_vars

\* The half of C24 about bodies that carry the recipe as yamlText.
InvalidYamlTextAnswered400 ==
  [][ \A c \in Clients :
        (/\ st[c].pc = "idle" /\ st'[c].pc # "idle"
         /\ st'[c].op \in {"post", "put"} /\ st'[c].form = "yamlText"
         /\ Len(RecipeSchema(st'[c].doc, <<>>)) > 0)
          => /\ st'[c].pc = "replied"
             /\ st'[c].status = 400
             /\ Len(st'[c].errors) > 0
             /\ fs' = fs
    ]_vars

\* C28: a create request that is answered with success and replaces the
\* content stored under the id of its recipe leaves that content in a file of
\* the recipe's history directory.
C28_CreateKeepsStoredContent ==
  [][ \A c \in Clients :
        (/\ st[c].pc = "idle" /\ st'[c].pc = "replied"
         /\ st'[c].op = "post" /\ st'[c].status = 200
         /\ recipeFilePath(st'[c].doc.id) \in DOMAIN fs.files
         /\ fs'.files[recipeFilePath(st'[c].doc.id)] # fs.files[recipeFilePath(st'[c].doc.id)])
          => \E p \in DOMAIN fs'.files :
               /\ startsWith(p, join(historyDir, st'[c].doc.id) \o Slash)
               /\ fs'.files[p] = fs.files[recipeFilePath(st'[c].doc.id)]
    ]_vars

(***************************************************************************)
(* SpecRoundTrip: saveRecipe and then getRecipeById, applied to valid      *)
(* recipes whose strings look like other YAML values                       *)
(***************************************************************************)

\* Ids, names, tags and defaults that a plain scalar would turn into a
\* number, a boolean or null, next to ordinary ones.
RoundTripVars ==
  [key : { KeyA }, label : { <<"l">> }, default : { <<>>, <<"d">>, <<"1", "2">> },
   required : { TRUE }, secret : { FALSE },
   options : { Undefined }, description : { Undefined }]

RoundTripVarLists == UNION {[1..n -> RoundTripVars] : n \in 0..MaxVars}

RoundTripDocs ==
  [id : { <<"w", "e", "b">>, <<"1", "2">>, <<"n", "u", "l", "l">> }, name : { <<"n">>, <<"t", "r", "u", "e">>, <<"~">> },
   description : { <<"d">> }, tags : { <<>>, << <<"1">> >> }, difficulty : { <<"e", "a", "s", "y">> },
   variables : RoundTripVarLists,
   composeTemplate : { <<"c">> }, envTemplate : { <<"e">> }, readmeTemplate : { <<"r">> },
   seedFiles : { Undefined }, extraFiles : { Undefined }]

RoundTripInit ==
  /\ doc \in RoundTripDocs
  /\ form = "recipe"
  /\ vreply = <<>>
  /\ vstate = "ready"
  /\ fs = ensureDirectories
  /\ recipes = <<>> /\ recent = <<>> /\ cl = <<>>
  /\ clock = 0 /\ secrets = {} /\ generations = <<>>
  /\ RenderIdle /\ BinderIdle /\ GenerateIdle /\ StoreIdle /\ PanelIdle

\* saveRecipe(r)
SaveRecipe ==
  /\ vstate = "ready"
  /\ \E w \in {saveRecipe(fs, doc)} : fs' = w.fs /\ vstate' = IF w.ok THEN "saved" ELSE "failed"
  /\ UNCHANGED <<doc, form, vreply, recipes, recent, cl, clock, secrets, generations,
                 rvars, bvars, gvars, tvars, pvars>>

\* getRecipeById(r.id)
GetRecipeById ==
  /\ vstate = "saved"
  /\ vreply' = getRecipeById(fs, doc.id)
  /\ vstate' = "loaded"
  /\ UNCHANGED <<doc, form, svars, rvars, bvars, gvars, tvars, pvars>>

RoundTripNext == SaveRecipe \/ GetRecipeById

SpecRoundTrip == RoundTripInit /\ [][RoundTripNext]_vars

C29_IdsStayInRecipesDir ==
  [][ /\ \A p \in DOMAIN fs.files :
           (p \notin DOMAIN fs'.files \/ fs'.files[p] # fs.files[p])
             => IsWithin(p, recipesDir)
      /\ \A p \in DOMAIN fs'.files \ DOMAIN fs.files : IsWithin(p, recipesDir)
      /\ \A c \in Clients :
           (st[c].pc = "idle" /\ st'[c].pc = "replied" /\ st'[c].op = "get"
              /\ st'[c].hasText)
             => \E p \in DOMAIN fs.files :
                  IsWithin(p, recipesDir) /\ fs.files[p] = st'[c].yamlText
    ]_vars

\* The half of C29 about the update endpoint, whose body must carry the id
\* of the URL.
UpdateStaysInRecipesDir ==
  [][ \A c \in Clients :
        (st[c].pc \in {"snapshot", "replace"} /\ st'[c].pc # st[c].pc)
          => /\ \A p \in DOMAIN fs.files :
                  fs'.files[p] # fs.files[p] => IsWithin(p, recipesDir)
             /\ \A p \in DOMAIN fs'.files \ DOMAIN fs.files : IsWithin(p, recipesDir)
    ]_vars

\* The half of C29 about the get endpoint alone (it fails as well: the
\* text returned for a traversing id is a file of a generated project).
GetReturnsRecipeFileText ==
  [][ \A c \in Clients :
        (st[c].pc = "idle" /\ st'[c].pc = "replied" /\ st'[c].op = "get"
           /\ st'[c].hasText)
          => \E p \in DOMAIN fs.files :
               IsWithin(p, recipesDir) /\ fs.files[p] = st'[c].yamlText
    ]_vars

(***************************************************************************)
(* GeneratePanel (frontend/src/App.tsx) in front of the validate and the   *)
(* generate endpoint                                                       *)
(***************************************************************************)

\* Mutant: the validate endpoint stores the recipe it accepted.
postValidate_saves(f, bodyForm, d) ==
  [reply |-> validate(bodyForm, d),
   fs |-> IF validate(bodyForm, d).ok THEN saveRecipe(f, d).fs ELSE f]

\* POST /api/recipes/validate: the reply, and the file system the handler
\* leaves (it calls nothing that writes).
postValidate(f, bodyForm, d) == [reply |-> validate(bodyForm, d), fs |-> f]

\* variable.options && variable.options.length
HasOptions(v) == ~IsUndefined(v.options) /\ Len(v.options) > 0

\* The defaults object of useState and of the effect: one entry per key,
\* later declarations assign over earlier ones.
DefaultVars(recipe) ==
  [k \in VarKeys(recipe.variables) |->
     recipe.variables[LastDeclared(recipe.variables, k)].default]

\* `demo-${recipe.id}`
DemoName(id) == <<"d", "e", "m", "o", "-">> \o id

\* recipe.variables.filter((variable) => variable.required && !vars[variable.key])
PanelMissing(recipe, vs) ==
  {i \in 1..Len(recipe.variables) :
     /\ recipe.variables[i].required
     /\ (recipe.variables[i].key \notin DOMAIN vs \/ vs[recipe.variables[i].key] = <<>>)}

\* const context = { projectName, ...vars }
PreviewContext(projectName, vs) ==
  [k \in {ProjectNameKey} \cup DOMAIN vs |->
     IF k \in DOMAIN vs THEN vs[k] ELSE projectName]

\* render of handlePreview: the pattern and the callback of renderTemplate.
PreviewRender(template, context) == renderTemplate(template, context)

\* The object handlePreview passes to setPreview.
PreviewOf(recipe, projectName, vs) ==
  [compose |-> PreviewRender(recipe.composeTemplate, PreviewContext(projectName, vs)),
   env |-> PreviewRender(recipe.envTemplate, PreviewContext(projectName, vs)),
   readme |-> PreviewRender(recipe.readmeTemplate, PreviewContext(projectName, vs))]

NoPreview == [compose |-> <<>>, env |-> <<>>, readme |-> <<>>]

\* The panel as it is mounted for a recipe: the recipe prop and the state
\* projectName, vars and preview (hasPreview: it is not null).  current is
\* history: the preview was rendered from the recipe, the project name and
\* the vars the panel holds now.
Mounted(recipe) ==
  [recipe |-> recipe, projectName |-> DemoName(recipe.id), vars |-> DefaultVars(recipe),
   hasPreview |-> FALSE, preview |-> NoPreview, current |-> FALSE]

\* Another recipe is selected.  When its query is in the cache the panel
\* stays mounted and the effect on recipe.id resets vars and projectName
\* (the preview stays); otherwise the panel is mounted anew.
SelectRecipe(id, cached) ==
  /\ id \in DOMAIN recipes /\ id # panel.recipe.id
  /\ panel' = IF cached
              THEN [panel EXCEPT !.recipe = recipes[id],
                                 !.vars = DefaultVars(recipes[id]),
                                 !.projectName = DemoName(id),
                                 !.current = FALSE]
              ELSE Mounted(recipes[id])
  /\ UNCHANGED svars

\* The query of the selected recipe is fetched again after an update: the
\* recipe prop changes, its id does not, the effect does not run.
Refetch ==
  /\ panel.recipe.id \in DOMAIN recipes
  /\ recipes[panel.recipe.id] # panel.recipe
  /\ panel' = [panel EXCEPT !.recipe = recipes[panel.recipe.id], !.current = FALSE]
  /\ UNCHANGED svars

\* Texts typed into the input of a variable.
TypedValues == { <<"t">> }

\* The onChange handler of a variable: a select offers the options, an input
\* takes the text that is typed.
SetVar(k, v) ==
  /\ \E i \in 1..Len(panel.recipe.variables) :
       /\ panel.recipe.variables[i].key = k
       /\ IF HasOptions(panel.recipe.variables[i])
          THEN \E n \in 1..Len(panel.recipe.variables[i].options) :
                 panel.recipe.variables[i].options[n] = v
          ELSE v \in TypedValues
  /\ panel' = [panel EXCEPT !.vars = Put(@, k, v),
                            !.current = @ /\ Put(panel.vars, k, v) = panel.vars]
  /\ UNCHANGED svars

\* handlePreview: the recipe is sent to the validate endpoint, and rendered
\* in the browser when the reply is ok.
HandlePreview ==
  \E v \in {postValidate(fs, "recipe", panel.recipe)} :
    /\ fs' = v.fs
    /\ panel' = IF v.reply.ok
                THEN [panel EXCEPT
                        !.hasPreview = TRUE,
                        !.preview = PreviewOf(panel.recipe, panel.projectName, panel.vars),
                        !.current = TRUE]
                ELSE panel
    /\ UNCHANGED <<recipes, recent, cl, clock, secrets, generations>>

MaxPanelGenerate == 1

\* handleGenerate: an invalid name or a missing required value stops the
\* click; otherwise vars is sent as it is.
HandleGenerate(c) ==
  /\ cl[c].pc = "idle"
  /\ clock < MaxPanelGenerate
  /\ MatchesProjectName(panel.projectName)
  /\ PanelMissing(panel.recipe, panel.vars) = {}
  /\ clock' = clock + 1
  /\ cl' = [cl EXCEPT ![c] =
              [IdleClient EXCEPT !.pc = "posted", !.ui = TRUE,
                 !.req = [recipeId |-> panel.recipe.id,
                          projectName |-> panel.projectName,
                          variables |-> panel.vars]]]
  /\ UNCHANGED <<recipes, fs, recent, secrets, generations, panel>>

\* An update of a stored recipe takes effect, between two generate requests.
RecipeUpdated(r) ==
  /\ r.id \in DOMAIN recipes /\ recipes[r.id] # r
  /\ \A c \in Clients : cl[c].pc \notin {"append_read", "append_write"}
  /\ recipes' = [recipes EXCEPT ![r.id] = r]
  /\ UNCHANGED <<fs, recent, cl, clock, secrets, generations, panel>>

\* A stored recipe is deleted (from another tab) while the panel may still
\* show it, between two generate requests.
RecipeDeleted(id) ==
  /\ id \in DOMAIN recipes
  /\ \A c \in Clients : cl[c].pc \notin {"append_read", "append_write"}
  /\ recipes' = [i \in DOMAIN recipes \ {id} |-> recipes[i]]
  /\ UNCHANGED <<fs, recent, cl, clock, secrets, generations, panel>>

(***************************************************************************)
(* SpecPanel: one browser with the panel open, and the server              *)
(***************************************************************************)

KeyM == <<"M">>
KeyN == <<"N">>

PanelVar(k, d, req, opts) ==
  [key |-> k, label |-> <<"l">>, default |-> d, required |-> req, secret |-> FALSE,
   options |-> opts, description |-> Undefined]

PanelRecipe(id, variables) ==
  [id |-> id, name |-> <<"n">>, description |-> <<"d">>, tags |-> <<>>,
   difficulty |-> <<"e", "a", "s", "y">>, variables |-> variables,
   composeTemplate |-> <<"m", ":", "{", "{", "M", "}", "}", "{", "{", "N", "}", "}">>, envTemplate |-> <<"e">>,
   readmeTemplate |-> <<"{", "{", "p", "r", "o", "j", "e", "c", "t", "N", "a", "m", "e", "}", "}">>,
   seedFiles |-> <<>>, extraFiles |-> <<>>]

\* The recipe app: a variable with an options list whose default is not in
\* the list.
AppRecipe == PanelRecipe(<<"a", "p", "p">>, << PanelVar(KeyM, <<"x">>, FALSE, << <<"a">>, <<"b">> >>) >>)

\* The recipe app after an update that added a variable.
AppRecipeUpdated ==
  PanelRecipe(<<"a", "p", "p">>, << PanelVar(KeyM, <<"x">>, FALSE, << <<"a">>, <<"b">> >>),
                        PanelVar(KeyN, <<"n">>, FALSE, Undefined) >>)

\* Another recipe, with a required variable without default.
DbRecipe == PanelRecipe(<<"d", "b">>, << PanelVar(KeyN, <<>>, TRUE, Undefined) >>)

PanelRecipes == (AppRecipe.id :> AppRecipe) @@ (DbRecipe.id :> DbRecipe)

PanelClient == "c1"

PanelInit ==
  /\ recipes = PanelRecipes
  /\ fs = ensureDirectories
  /\ recent = <<>>
  /\ cl = [c \in Clients |-> IdleClient]
  /\ clock = 0
  /\ secrets = {}
  /\ generations = <<>>
  /\ panel = Mounted(AppRecipe)
  /\ RenderIdle /\ BinderIdle /\ GenerateIdle /\ ValidateIdle /\ StoreIdle

PanelNext ==
  \/ \E id \in DOMAIN PanelRecipes, cached \in BOOLEAN :
       SelectRecipe(id, cached) /\ UNCHANGED <<rvars, bvars, gvars, vvars, tvars>>
  \/ Refetch /\ UNCHANGED <<rvars, bvars, gvars, vvars, tvars>>
  \/ \E k \in {KeyM, KeyN}, v \in TypedValues \cup { <<"a">>, <<"b">> } :
       SetVar(k, v) /\ UNCHANGED <<rvars, bvars, gvars, vvars, tvars>>
  \/ HandlePreview /\ UNCHANGED <<rvars, bvars, gvars, vvars, tvars>>
  \/ HandleGenerate(PanelClient) /\ UNCHANGED <<rvars, bvars, gvars, vvars, tvars>>
  \/ \E r \in {AppRecipeUpdated} :
       RecipeUpdated(r) /\ UNCHANGED <<rvars, bvars, gvars, vvars, tvars>>
  \/ \E id \in {DbRecipe.id} :
       RecipeDeleted(id) /\ UNCHANGED <<rvars, bvars, gvars, vvars, tvars>>
  \/ ServeGenerate(PanelClient) /\ UNCHANGED <<rvars, bvars, gvars, vvars, tvars, pvars>>
  \/ AppendRead(PanelClient) /\ UNCHANGED <<rvars, bvars, gvars, vvars, tvars, pvars>>
  \/ AppendWrite(PanelClient) /\ UNCHANGED <<rvars, bvars, gvars, vvars, tvars, pvars>>
  \/ UiOnSuccess(PanelClient) /\ UNCHANGED <<rvars, bvars, gvars, vvars, tvars, pvars>>
  \/ Finish(PanelClient) /\ UNCHANGED <<rvars, bvars, gvars, vvars, tvars, pvars>>

SpecPanel == PanelInit /\ [][PanelNext]_vars

(***************************************************************************)
(* Claims about the panel (checked under SpecPanel)                        *)
(***************************************************************************)

\* C22: a preview renders compose, env and readme in memory from the
\* recipe, the project name and the vars of the panel, and changes no file
\* (so nothing below the generated directory and not the index), no stored
\* recipe and no request.
C22_PreviewWritesNothing ==
  [][ (~panel.current /\ panel'.current)
        => /\ panel'.hasPreview
           /\ panel'.preview = PreviewOf(panel.recipe, panel.projectName, panel.vars)
           /\ fs' = fs
           /\ recipes' = recipes
           /\ generations' = generations
           /\ cl' = cl
    ]_vars

\* A preview is shown after a generation, and the files are those the
\* generation left.
C22_Witness ==
  /\ panel.hasPreview /\ panel.current
  /\ Len(generations) = 1
  /\ \A c \in Clients : cl[c].pc = "idle"
  /\ recipeFilePath(panel.recipe.id) \notin DOMAIN fs.files
  /\ Len(readGeneratedIndex(fs)) = 1

\* C25: in every generate request the panel has sent, a variable that
\* declares a non-empty options list is bound to a member of that list.
C25_SubmittedValueInOptions ==
  \A c \in Clients :
    (cl[c].pc # "idle" /\ cl[c].ui /\ cl[c].req.recipeId \in DOMAIN recipes)
      => \A i \in 1..Len(recipes[cl[c].req.recipeId].variables) :
           LET v == recipes[cl[c].req.recipeId].variables[i] IN
           HasOptions(v)
             => \E n \in 1..Len(v.options) :
                  v.options[n] = Resolve(v, cl[c].req.variables)

\* The generate request of client c is served for the recipe, the project
\* name and the vars the preview shown was rendered from.
ServedAsPreviewed(c) ==
  /\ cl[c].pc = "posted" /\ cl[c].ui
  /\ panel.hasPreview /\ panel.current
  /\ cl[c].req.recipeId \in DOMAIN recipes
  /\ recipes[cl[c].req.recipeId] = panel.recipe
  /\ cl[c].req.projectName = panel.projectName
  /\ cl[c].req.variables = panel.vars

\* C30: when generate runs for the recipe, the project name and the variable
\* values of the preview, the strings it returns and writes are the strings
\* of the preview.
C30_PreviewEqualsGenerated ==
  [][ \A c \in Clients :
        (ServedAsPreviewed(c) /\ cl'[c].pc = "append_read")
          => /\ cl'[c].files = panel.preview
             /\ HoldsText(fs', join(cl'[c].projectDir, ComposeName), panel.preview.compose)
             /\ HoldsText(fs', join(cl'[c].projectDir, EnvName), panel.preview.env)
             /\ HoldsText(fs', join(cl'[c].projectDir, ReadmeName), panel.preview.readme)
    ]_vars

\* The same for the states in which vars holds exactly the keys the recipe
\* declares, as it does until the recipe changes under the same id.
PreviewEqualsGeneratedWhenVarsMatch ==
  [][ \A c \in Clients :
        (/\ ServedAsPreviewed(c) /\ cl'[c].pc = "append_read"
         /\ DOMAIN panel.vars = VarKeys(panel.recipe.variables))
          => /\ cl'[c].files = panel.preview
             /\ HoldsText(fs', join(cl'[c].projectDir, ComposeName), panel.preview.compose)
             /\ HoldsText(fs', join(cl'[c].projectDir, EnvName), panel.preview.env)
             /\ HoldsText(fs', join(cl'[c].projectDir, ReadmeName), panel.preview.readme)
    ]_vars

\* What the panel does ensure: the value sent for a variable with options is
\* a member of the list or the default of the variable.
SubmittedValueInOptionsOrDefault ==
  \A c \in Clients :
    (cl[c].pc # "idle" /\ cl[c].ui /\ cl[c].req.recipeId \in DOMAIN recipes)
      => \A i \in 1..Len(recipes[cl[c].req.recipeId].variables) :
           LET v == recipes[cl[c].req.recipeId].variables[i] IN
           HasOptions(v)
             => \/ \E n \in 1..Len(v.options) :
                     v.options[n] = Resolve(v, cl[c].req.variables)
                \/ Resolve(v, cl[c].req.variables) = v.default

====
